---- MODULE Spec2Model ----
(***************************************************************************)
(* The embedded document store of src/Frontend/lib/mongodb.ts (the mock   *)
(* MongoDB client kept in localStorage, its per-collection mirror cache   *)
(* and its predicate matcher deepCompare) and the TTL result cache of the *)
(* service layer in src/components/useAuth.tsx (serviceCache,             *)
(* invalidateServiceCache and the cached reads).                          *)
(***************************************************************************)
EXTENDS Integers, Sequences, FiniteSets, TLC

VARIABLES
    collectionCache,  \* mongodb.ts:76   collection name -> mirror entry
    localStorage,     \* the browser's localStorage, keys mock_<name>
    serviceCache,     \* useAuth.tsx:25  cache key -> {data, timestamp}
    now,              \* the wall clock read by Date.now() / new Date()
    last,             \* the last Store call: arguments, outcome, result
    calls,            \* the in-flight asynchronous callers
    refused,          \* how many writes localStorage.setItem has refused
    probe             \* deepCompare applied to one (itemValue, queryValue)

vars == <<collectionCache, localStorage, serviceCache, now, last, calls, refused, probe>>

(***************************************************************************)
(* JavaScript values.  Every value is a record of the same five fields so *)
(* that values of different JavaScript types can be told apart:           *)
(*   t  the type tag: "undef", "null", "bool", "num", "str", "iso" (the   *)
(*      string produced by Date.toISOString), "oid" (an ObjectId          *)
(*      instance), "obj" (a plain object), "arr" (an array)               *)
(*   n  the number, the boolean as 0/1, or the instant of an "iso" string *)
(*   s  the characters of a string, or the id held by an ObjectId         *)
(*   k  the own properties of a plain object (key -> value)               *)
(*   e  the elements of an array                                          *)
(***************************************************************************)
Val(t, n, s) == [t |-> t, n |-> n, s |-> s, k |-> <<>>, e |-> <<>>]
Undefined == Val("undef", 0, "")
Null      == Val("null", 0, "")
Bool(b)   == Val("bool", IF b THEN 1 ELSE 0, "")
Num(i)    == Val("num", i, "")
Str(x)    == Val("str", 0, x)
Iso(i)    == Val("iso", i, "")
Obj(f)    == [t |-> "obj", n |-> 0, s |-> "", k |-> f, e |-> <<>>]
Arr(q)    == [t |-> "arr", n |-> 0, s |-> "", k |-> <<>>, e |-> q]

\* The strings of the model in the order of JavaScript's string comparison
\* (by UTF-16 code unit), and the ones that ToNumber reads as a number.
StrOrder ==
    << "", "/images/designs/kitchen1.jpg", "/images/designs/living1.jpg", "20", "5",
       "Beige", "Black", "Brown", "Gray", "Green", "Kitchen", "Living Room",
       "Modern", "Modern Living Room", "Rustic", "Rustic Kitchen Design",
       "Sleek and contemporary living space",
       "Warm and inviting kitchen with natural elements", "White",
       "[object Object]", "a", "abc", "b", "contemporary", "country",
       "id_1", "id_2", "id_3", "minimalist", "natural", "u1", "urban", "wooden" >>
StrRank(x) == CHOOSE i \in 1..Len(StrOrder) : StrOrder[i] = x
NumericStrings == {"", "5", "20"}
StrToNum(x) == CASE x = "" -> 0 [] x = "5" -> 5 [] x = "20" -> 20 [] OTHER -> 0

\* typeof v
TypeOf(v) ==
    CASE v.t = "undef" -> "undefined"
      [] v.t = "bool"  -> "boolean"
      [] v.t = "num"   -> "number"
      [] v.t \in {"str", "iso"} -> "string"
      [] OTHER -> "object"

\* ToBoolean(v), the test of `if (v)`, `v && ...`, `v || ...`
Truthy(v) ==
    CASE v.t \in {"undef", "null"} -> FALSE
      [] v.t = "bool" -> v.n = 1
      [] v.t = "num"  -> v.n # 0
      [] v.t = "str"  -> v.s # ""
      [] OTHER -> TRUE

\* obj[key]: an own property of a plain object, undefined otherwise
Get(v, key) == IF v.t = "obj" /\ key \in DOMAIN v.k THEN v.k[key] ELSE Undefined

\* a === b.  Two object values are never the same reference here: one side
\* is taken from the stored documents and the other from the query.
StrictEquals(a, b) ==
    CASE a.t \in {"undef", "null"} -> b.t = a.t
      [] a.t \in {"bool", "num", "iso"} -> b.t = a.t /\ b.n = a.n
      [] a.t = "str" -> b.t = "str" /\ b.s = a.s
      [] OTHER -> FALSE

\* ToPrimitive(v): ObjectId.toString (mongodb.ts:61-63) for an ObjectId,
\* Object.prototype.toString for a plain object, join for an empty array.
ToPrimitive(v) ==
    CASE v.t = "oid" -> Str(v.s)
      [] v.t = "obj" -> Str("[object Object]")
      [] v.t = "arr" -> Str("")
      [] OTHER -> v

\* ToNumber of a primitive; nan marks NaN
ToNumber(p) ==
    CASE p.t \in {"num", "bool"} -> [nan |-> FALSE, n |-> p.n]
      [] p.t = "null" -> [nan |-> FALSE, n |-> 0]
      [] p.t = "str" /\ p.s \in NumericStrings -> [nan |-> FALSE, n |-> StrToNum(p.s)]
      [] OTHER -> [nan |-> TRUE, n |-> 0]

\* Both operands are strings: the dates of the model ("iso") are all later
\* than its other strings are ranked, and are ordered by their instant.
StringLess(p, q) ==
    CASE p.t = "iso" /\ q.t = "iso" -> p.n < q.n
      [] p.t = "iso" -> q.t = "str" /\ StrRank(q.s) > StrRank("20")
      [] q.t = "iso" -> StrRank(p.s) <= StrRank("20")
      [] OTHER -> StrRank(p.s) < StrRank(q.s)

\* The abstract relational comparison x < y: "true", "false" or "undefined"
\* (an operand is NaN).
AbstractLess(x, y) ==
    LET p == ToPrimitive(x)
        q == ToPrimitive(y)
    IN  IF TypeOf(p) = "string" /\ TypeOf(q) = "string"
        THEN IF StringLess(p, q) THEN "true" ELSE "false"
        ELSE LET a == ToNumber(p)
                 b == ToNumber(q)
             IN  IF a.nan \/ b.nan THEN "undefined"
                 ELSE IF a.n < b.n THEN "true" ELSE "false"

JsLt(a, b) == AbstractLess(a, b) = "true"
JsGt(a, b) == AbstractLess(b, a) = "true"
JsLe(a, b) == AbstractLess(b, a) = "false"
JsGe(a, b) == AbstractLess(a, b) = "false"

\* q.includes(v): SameValueZero on the elements (no NaN in the model)
Includes(q, v) == \E i \in 1..Len(q) : StrictEquals(q[i], v)

(***************************************************************************)
(* JSON.  The text JSON.stringify produces is represented by the value    *)
(* JSON.parse reads back from it, so two texts are equal iff these values *)
(* are (the key order of objects is not modelled).  An ObjectId instance  *)
(* is written as the plain object {"id": ...} of its one own property, a  *)
(* property whose value is undefined is left out, and an undefined array  *)
(* element is written as null.                                            *)
(***************************************************************************)
RECURSIVE JsonValue(_)
JsonValue(v) ==
    CASE v.t = "oid" -> Obj([id |-> Str(v.s)])
      [] v.t = "obj" ->
            LET keep == {key \in DOMAIN v.k : v.k[key].t # "undef"}
            IN  Obj([key \in keep |-> JsonValue(v.k[key])])
      [] v.t = "arr" ->
            Arr([i \in 1..Len(v.e) |->
                    IF v.e[i].t = "undef" THEN Null ELSE JsonValue(v.e[i])])
      [] OTHER -> v

\* A document is a function from its field names to values.
JsonDoc(d) ==
    LET keep == {key \in DOMAIN d : d[key].t # "undef"}
    IN  [key \in keep |-> JsonValue(d[key])]

\* JSON.parse(JSON.stringify(items)) for an array of documents
JsonRoundTrip(items) == [i \in 1..Len(items) |-> JsonDoc(items[i])]

\* JSON.stringify(a) === JSON.stringify(b); JSON.stringify(undefined) is
\* undefined and no text.
JsonStringifyEquals(a, b) ==
    IF a.t = "undef" \/ b.t = "undef"
    THEN a.t = b.t
    ELSE JsonValue(a) = JsonValue(b)

(***************************************************************************)
(* String(v) and RegExp.test for the patterns of the model, which are     *)
(* single letters: the test is whether the text holds the letter (in      *)
(* either case under the flag "i").  LettersOf gives the letters among    *)
(* "a", "b" that the text of a value holds; its capitals are none of them.*)
(***************************************************************************)
StrLetters(x) ==
    CASE x \in {"a"} -> {"a"}
      [] x \in {"b", "[object Object]"} -> {"b"}
      [] x = "abc" -> {"a", "b"}
      [] OTHER -> {}

RECURSIVE LettersOf(_)
LettersOf(v) ==
    CASE v.t = "bool" -> IF v.n = 1 THEN {} ELSE {"a"}
      [] v.t \in {"str", "oid"} -> StrLetters(v.s)
      [] v.t = "obj" -> {"b"}
      [] v.t = "arr" -> UNION {LettersOf(v.e[i]) : i \in 1..Len(v.e)}
      [] OTHER -> {}

RegExpTest(pattern, flags, v) ==
    CASE pattern.s \in {"a", "b"} -> pattern.s \in LettersOf(v)
      [] pattern.s = "A" -> flags.t = "str" /\ flags.s = "i" /\ "a" \in LettersOf(v)
      [] OTHER -> FALSE

(***************************************************************************)
(* The predicate matcher, mongodb.ts:8-51.                                *)
(***************************************************************************)
deepCompare(itemValue, queryValue) ==
    LET isObject == Truthy(queryValue) /\ TypeOf(queryValue) = "object"
        op(key)  == Get(queryValue, key)
    IN  IF isObject /\ Truthy(op("$in")) /\ op("$in").t = "arr"
            THEN Includes(op("$in").e, itemValue)
        ELSE IF isObject /\ op("$gt").t # "undef"
            THEN JsGt(itemValue, op("$gt"))
        ELSE IF isObject /\ op("$gte").t # "undef"
            THEN JsGe(itemValue, op("$gte"))
        ELSE IF isObject /\ op("$lt").t # "undef"
            THEN JsLt(itemValue, op("$lt"))
        ELSE IF isObject /\ op("$lte").t # "undef"
            THEN JsLe(itemValue, op("$lte"))
        ELSE IF isObject /\ op("$ne").t # "undef"
            THEN ~StrictEquals(itemValue, op("$ne"))
        ELSE IF isObject /\ Truthy(op("$regex"))
            THEN RegExpTest(op("$regex"),
                            IF Truthy(op("$options")) THEN op("$options") ELSE Str(""),
                            itemValue)
        ELSE JsonStringifyEquals(itemValue, queryValue)

(***************************************************************************)
(* Documents, filters and the per-document tests of the Store.            *)
(***************************************************************************)
\* item[key]: undefined for a field the document lacks
Field(d, key) == IF key \in DOMAIN d THEN d[key] ELSE Undefined

\* d with d[key] = v assigned
Assign(d, key, v) == [f \in DOMAIN d \cup {key} |-> IF f = key THEN v ELSE d[f]]

\* x instanceof ObjectId ? x.toString() : x     (mongodb.ts:127-133)
IdString(v) == IF v.t = "oid" THEN Str(v.s) ELSE v

\* A variant of the every-key test that skips the keys the document lacks; the
\* absent-field claim must tell it from the test of the code.
everyKeyMatches_PresentOnly(item, query) ==
    \A key \in DOMAIN query \cap DOMAIN item :
        IF TypeOf(query[key]) = "object" /\ query[key].t # "null"
        THEN deepCompare(item[key], query[key])
        ELSE StrictEquals(item[key], query[key])

\* Object.keys(query).every(...), mongodb.ts:139-145, 240-245, 295-300, 337-342
everyKeyMatches(item, query) ==
    \A key \in DOMAIN query :
        IF TypeOf(query[key]) = "object" /\ query[key].t # "null"
        THEN deepCompare(Field(item, key), query[key])
        ELSE StrictEquals(Field(item, key), query[key])

\* The callback of items.find / items.findIndex in findOne, updateOne and
\* deleteOne (mongodb.ts:124-146, 226-246, 281-301): a query that carries a
\* truthy _id is decided by the identifier alone.
matchesItem(item, query) ==
    IF Truthy(Field(query, "_id"))
    THEN StrictEquals(IdString(Field(item, "_id")), IdString(Field(query, "_id")))
    ELSE everyKeyMatches(item, query)

\* A variant of findIndex that answers the first place when nothing matches;
\* the claims about calls that match nothing must tell it from findIndex.
findIndex_FirstWhenNone(items, query) ==
    IF \E i \in 1..Len(items) : matchesItem(items[i], query)
    THEN CHOOSE i \in 1..Len(items) :
            /\ matchesItem(items[i], query)
            /\ \A j \in 1..(i - 1) : ~matchesItem(items[j], query)
    ELSE IF items = <<>> THEN 0 ELSE 1

\* items.findIndex(callback): 0 stands for -1
findIndex(items, query) ==
    IF \E i \in 1..Len(items) : matchesItem(items[i], query)
    THEN CHOOSE i \in 1..Len(items) :
            /\ matchesItem(items[i], query)
            /\ \A j \in 1..(i - 1) : ~matchesItem(items[j], query)
    ELSE 0

RECURSIVE filterItems(_, _)
\* items.filter(callback) of countDocuments (mongodb.ts:336-343)
filterItems(items, query) ==
    IF items = <<>> THEN <<>>
    ELSE (IF everyKeyMatches(Head(items), query) THEN <<Head(items)>> ELSE <<>>)
            \o filterItems(Tail(items), query)

(***************************************************************************)
(* Bounds and the inputs the callers draw from.                           *)
(***************************************************************************)
MaxDocs == 2        \* documents the collections may hold together
MaxGenIds == 2      \* distinct results of ObjectId._generateId
MaxRefused == 1     \* writes the browser may refuse in one run

Names == {"designs", "projects"}

\* 'id_' + Math.random().toString(36).substr(2, 9)      (mongodb.ts:70-72)
GeneratedIds == {"id_" \o ToString(i) : i \in 1..MaxGenIds}

Oid(x) == Val("oid", 0, x)

NoDoc == <<>>

\* Documents handed to insertOne
InputDocs ==
    { [age |-> Num(30)],
      [age |-> Num(70)],
      [_id |-> Str("u1"), age |-> Num(10)],
      [_id |-> Str("id_1"), age |-> Str("5"), createdAt |-> Iso(0)],
      [design |-> Oid("u1"), note |-> Undefined] }

\* Documents handed to insertMany
BatchDocs == { [age |-> Num(30)], [_id |-> Str("u1"), age |-> Num(10)] }

\* An array of strings
Strings(q) == Arr([i \in 1..Len(q) |-> Str(q[i])])

\* The designs array of initializeMockData (mongodb.ts:386-413), built at
\* instant `at` with the generated ids id1 and id2
mockDesigns(id1, id2, at) ==
    << [_id |-> Oid(id1), title |-> Str("Modern Living Room"),
        description |-> Str("Sleek and contemporary living space"),
        category |-> Str("Living Room"),
        imageUrl |-> Str("/images/designs/living1.jpg"),
        style |-> Str("Modern"), roomType |-> Str("Living Room"),
        colorScheme |-> Strings(<<"Gray", "White", "Black">>),
        tags |-> Strings(<<"minimalist", "contemporary", "urban">>),
        createdAt |-> Iso(at), updatedAt |-> Iso(at)],
       [_id |-> Oid(id2), title |-> Str("Rustic Kitchen Design"),
        description |-> Str("Warm and inviting kitchen with natural elements"),
        category |-> Str("Kitchen"),
        imageUrl |-> Str("/images/designs/kitchen1.jpg"),
        style |-> Str("Rustic"), roomType |-> Str("Kitchen"),
        colorScheme |-> Strings(<<"Brown", "Beige", "Green">>),
        tags |-> Strings(<<"wooden", "natural", "country">>),
        createdAt |-> Iso(at), updatedAt |-> Iso(at)] >>

\* The array initializeMockData leaves under mock_designs (mongodb.ts:415-418)
\* when the module loads: each _id is an ObjectId instance, written by
\* JSON.stringify as {"id": ...}.
SampleDesigns == JsonRoundTrip(mockDesigns("id_1", "id_2", 0))

\* Filters handed to the Store
OperatorObjects ==
    { Obj([x \in {"$gte", "$lte"} |-> IF x = "$gte" THEN Num(18) ELSE Num(65)]),
      Obj([x \in {"$gt"} |-> Num(3)]),
      Obj([x \in {"$ne"} |-> Num(30)]),
      Obj([x \in {"$in"} |-> Arr(<<Num(10), Num(70)>>)]),
      Obj([x \in {"$foo"} |-> Num(30)]) }

Filters ==
    { <<>> }
    \cup { [age |-> v] : v \in {Num(30), Str("5"), Null, Undefined} \cup OperatorObjects }
    \cup { [_id |-> v] : v \in {Str("u1"), Str("id_1"), Oid("id_1"), Str("id_3")} }
    \cup { [_id |-> Str("u1"), age |-> Num(70)], [_id |-> Str("id_1"), age |-> Str("5")] }

\* The documents, filters and updates of the callers of Spec, which runs many
\* calls in a row
SeqDocs == { [age |-> Num(30)],
            [_id |-> Str("id_1"), design |-> Oid("u1"), note |-> Undefined] }
SeqFilters == { <<>>, [age |-> Num(30)], [_id |-> Str("id_1")] }
SeqUpdates == { [x \in {"$set"} |-> [age |-> Num(70)]] }

\* Updates handed to updateOne
Updates ==
    { [x \in {"$set"} |-> [age |-> Num(10)]],
      [x \in {"$set"} |-> [_id |-> Str("u1")]],
      [x \in {"$set"} |-> [age |-> Num(70), tag |-> Str("a")]],
      <<>> }

(***************************************************************************)
(* The Store: mockDb.collection(name), mongodb.ts:89-346.  An entry of    *)
(* collectionCache is absent or an array of documents; a localStorage key *)
(* is absent ("none"), holds the JSON text of an array ("json", kept as   *)
(* the array JSON.parse reads from it), a non-empty text JSON.parse       *)
(* rejects ("corrupt") or the empty string ("empty"), which JSON.parse    *)
(* would reject too but which is falsy and so never handed to it.         *)
(***************************************************************************)
Absent == [present |-> FALSE, items |-> <<>>]
Cached(items) == [present |-> TRUE, items |-> items]
NoItem == [state |-> "none", items |-> <<>>]
Corrupt == [state |-> "corrupt", items |-> <<>>]
EmptyText == [state |-> "empty", items |-> <<>>]

\* !localStorage.getItem(key): the key is absent or holds the empty string
NoText(stored) == stored.state \in {"none", "empty"}
JsonText(items) == [state |-> "json", items |-> JsonRoundTrip(items)]

\* A variant of parseStored that reads a rejected text as the empty array; the
\* claim about an unreadable store must tell it from JSON.parse.
parseStored_EmptyOnError(c) ==
    [ok |-> TRUE, items |-> localStorage[c].items]

\* storedData ? JSON.parse(storedData) : []: null and the empty string are
\* falsy and give [], JSON.parse throws a SyntaxError on a corrupt text
parseStored(c) ==
    IF NoText(localStorage[c])
    THEN [ok |-> TRUE, items |-> <<>>]
    ELSE IF localStorage[c].state = "corrupt"
    THEN [ok |-> FALSE, items |-> <<>>]
    ELSE [ok |-> TRUE, items |-> localStorage[c].items]

\* A variant of loadItems that always parses localStorage; the claim about
\* cached reads must tell it from the test of the cache entry in the code.
loadItems_AlwaysParses(c) == parseStored(c)

\* `if (collectionCache[name]) {...} else {...}` at the head of every
\* operation: the cached array, or the parsed localStorage value
loadItems(c) ==
    IF collectionCache[c].present
    THEN [ok |-> TRUE, items |-> collectionCache[c].items]
    ELSE parseStored(c)

NoCall ==
    [op |-> "none", coll |-> "", query |-> <<>>, doc |-> NoDoc, docs |-> <<>>,
     update |-> <<>>, outcome |-> "ok", error |-> "", items |-> <<>>, n |-> 0,
     id |-> Undefined, ids |-> <<>>]

\* What one call of a Store operation on collection c does: the entry of
\* collectionCache[c] and the value of localStorage mock_<c> it leaves, and
\* what the caller gets (ret).
Step(cache, stored, ret) == [cache |-> cache, stored |-> stored, ret |-> ret]

Returned(op, c, items, n) ==
    [NoCall EXCEPT !.op = op, !.coll = c, !.items = items, !.n = n]

Threw(op, c, error) ==
    [NoCall EXCEPT !.op = op, !.coll = c, !.outcome = "throws", !.error = error]

\* A read fills the cache: the lines shared by toArray, findOne and
\* countDocuments (mongodb.ts:95-104, 112-121, 320-328); JSON.parse throws a
\* SyntaxError on a corrupt text.
readThrough(c, op, query, ret) ==
    IF loadItems(c).ok
    THEN Step(Cached(loadItems(c).items), localStorage[c], [ret EXCEPT !.query = query])
    ELSE Step(collectionCache[c], localStorage[c],
              [Threw(op, c, "SyntaxError") EXCEPT !.query = query])

\* collection(name).find(query).sort(sortOptions).toArray(), mongodb.ts:91-109
find(c, query) ==
    readThrough(c, "find", query, Returned("find", c, loadItems(c).items, 0))

\* collection(name).findOne(query), mongodb.ts:110-147; n is the place of the
\* document found, items holds it (empty for null)
findOne(c, query) ==
    LET items == loadItems(c).items
        i == findIndex(items, query)
    IN  readThrough(c, "findOne", query,
                    Returned("findOne", c, IF i = 0 THEN <<>> ELSE <<items[i]>>, i))

\* collection(name).countDocuments(query), mongodb.ts:318-344
countDocuments(c, query) ==
    LET items == loadItems(c).items
    IN  readThrough(c, "countDocuments", query,
                    Returned("countDocuments", c, <<>>,
                             IF DOMAIN query = {} THEN Len(items)
                             ELSE Len(filterItems(items, query))))

\* A variant of writeBack that persists only the last document of the array (a
\* delta write); the persistence claim must tell it from the write of the code.
writeBack_LastOnly(c, items, fails, ret) ==
    IF fails
    THEN Step(Cached(items), localStorage[c],
              [ret EXCEPT !.outcome = "throws", !.error = "QuotaExceededError",
                          !.n = 0, !.id = Undefined, !.ids = <<>>])
    ELSE Step(Cached(items),
              JsonText(IF items = <<>> THEN <<>> ELSE <<items[Len(items)]>>), ret)

\* `collectionCache[name] = items; localStorage.setItem(`mock_${name}`,
\* JSON.stringify(items)); return ...`, the tail of the four mutating
\* operations (mongodb.ts:171-177, 207-213, 262-268, 310-316).  setItem throws
\* (QuotaExceededError) when the browser refuses the write.
writeBack(c, items, fails, ret) ==
    IF fails
    THEN Step(Cached(items), localStorage[c],
              [ret EXCEPT !.outcome = "throws", !.error = "QuotaExceededError",
                          !.n = 0, !.id = Undefined, !.ids = <<>>])
    ELSE Step(Cached(items), JsonText(items), ret)

\* A mutating operation whose load fails, or that finds nothing to change
untouched(c, ret) == Step(collectionCache[c], localStorage[c], ret)

\* A variant of stamp that always generates the identifier; the insertOne claim
\* must tell it from the stamp of the code.
stamp_NewIdAlways(doc, genId) ==
    LET withId == Assign(doc, "_id", Str(genId))
        created == IF Truthy(Field(withId, "createdAt"))
                   THEN Field(withId, "createdAt") ELSE Iso(now)
    IN  Assign(Assign(withId, "createdAt", created), "updatedAt", Iso(now))

\* The identifier and the timestamps insertOne / insertMany put on a document
\* (mongodb.ts:149-157, 194-201); genId is the result of new ObjectId().toString()
stamp(doc, genId) ==
    LET withId == IF ~Truthy(Field(doc, "_id")) THEN Assign(doc, "_id", Str(genId)) ELSE doc
        created == IF Truthy(Field(withId, "createdAt"))
                   THEN Field(withId, "createdAt") ELSE Iso(now)
    IN  Assign(Assign(withId, "createdAt", created), "updatedAt", Iso(now))

\* collection(name).insertOne(doc), mongodb.ts:148-178
insertOne(c, doc, genId, fails) ==
    LET loaded == loadItems(c)
        newDoc == stamp(doc, genId)
        items  == Append(loaded.items, newDoc)
    IN  IF ~loaded.ok
        THEN untouched(c, [Threw("insertOne", c, "SyntaxError") EXCEPT !.doc = newDoc])
        ELSE writeBack(c, items, fails,
                       [Returned("insertOne", c, <<>>, 1)
                            EXCEPT !.doc = newDoc, !.id = Field(newDoc, "_id")])

\* collection(name).insertMany(docs), mongodb.ts:179-214; genIds[i] is the
\* identifier generated for docs[i] when it has none
insertMany(c, docs, genIds, fails) ==
    LET loaded  == loadItems(c)
        newDocs == [i \in 1..Len(docs) |-> stamp(docs[i], genIds[i])]
        items   == loaded.items \o newDocs
        ids     == [i \in 1..Len(docs) |-> Field(newDocs[i], "_id")]
    IN  IF ~loaded.ok
        THEN untouched(c, [Threw("insertMany", c, "SyntaxError") EXCEPT !.docs = docs])
        ELSE writeBack(c, items, fails,
                       [Returned("insertMany", c, <<>>, Len(docs))
                            EXCEPT !.docs = newDocs, !.ids = ids])

\* A variant of insertManyWrites with one setItem per document of the batch;
\* the insertMany claim must tell it from the single write of the code.
insertManyWrites_PerDocument(c, docs) ==
    IF loadItems(c).ok THEN Len(docs) ELSE 0

\* The calls of localStorage.setItem one insertMany makes: the one after the
\* forEach over docs (mongodb.ts:211), not reached when JSON.parse throws
insertManyWrites(c, docs) ==
    IF loadItems(c).ok THEN 1 ELSE 0

\* `if (update.$set) Object.keys(update.$set).forEach(...)` and the updatedAt
\* stamp, mongodb.ts:252-260
applyUpdate(item, update) ==
    LET set == IF "$set" \in DOMAIN update THEN update["$set"] ELSE <<>>
        merged == [f \in DOMAIN item \cup DOMAIN set |->
                        IF f \in DOMAIN set THEN set[f] ELSE item[f]]
    IN  Assign(merged, "updatedAt", Iso(now))

\* collection(name).updateOne(query, update), mongodb.ts:215-269
updateOne(c, query, update, fails) ==
    LET loaded == loadItems(c)
        index  == findIndex(loaded.items, query)
        items  == [loaded.items EXCEPT ![index] = applyUpdate(@, update)]
        call(r) == [r EXCEPT !.query = query, !.update = update]
    IN  IF ~loaded.ok
        THEN untouched(c, call(Threw("updateOne", c, "SyntaxError")))
        ELSE IF index = 0
        THEN untouched(c, call(Returned("updateOne", c, <<>>, 0)))
        ELSE writeBack(c, items, fails, call(Returned("updateOne", c, <<>>, 1)))

\* items.splice(index, 1)
splice(items, index) ==
    [i \in 1..(Len(items) - 1) |-> IF i < index THEN items[i] ELSE items[i + 1]]

\* collection(name).deleteOne(query), mongodb.ts:270-317
deleteOne(c, query, fails) ==
    LET loaded == loadItems(c)
        index  == findIndex(loaded.items, query)
        items  == splice(loaded.items, index)
        call(r) == [r EXCEPT !.query = query]
    IN  IF ~loaded.ok
        THEN untouched(c, call(Threw("deleteOne", c, "SyntaxError")))
        ELSE IF index = 0
        THEN untouched(c, call(Returned("deleteOne", c, <<>>, 0)))
        ELSE writeBack(c, items, fails, call(Returned("deleteOne", c, <<>>, 1)))

\* invalidateCache(collectionName?), mongodb.ts:427-438; cs is the one
\* collection named, or all of them
invalidateCache(cs) ==
    [c \in Names |-> IF c \in cs THEN Absent ELSE collectionCache[c]]

(***************************************************************************)
(* Spec: callers issue Store operations one after another.  No operation  *)
(* of the Store awaits anything, so each runs to completion once called.  *)
(* Here `last` keeps of a call its name and its outcome.                  *)
(***************************************************************************)
NoProbe == [item |-> Undefined, query |-> Undefined, result |-> "none"]

\* mock_designs is seeded by initializeMockData when the module loads in a
\* browser; any key may hold a text that JSON.parse rejects.
InitialStores(c) ==
    IF c = "designs" THEN {NoItem, Corrupt, JsonText(SampleDesigns)} ELSE {NoItem, Corrupt}

Init ==
    /\ collectionCache = [c \in Names |-> Absent]
    /\ localStorage \in {f \in [Names -> {NoItem, Corrupt, JsonText(SampleDesigns)}] :
                            \A c \in Names : f[c] \in InitialStores(c)}
    /\ serviceCache = <<>>
    /\ now = 0
    /\ last = NoCall
    /\ calls = <<>>
    /\ refused = 0
    /\ probe = NoProbe

others == <<serviceCache, calls, probe>>

Brief(ret) ==
    [NoCall EXCEPT !.op = ret.op, !.outcome = ret.outcome, !.error = ret.error]

\* The call leaves its step in the state
Commit(c, step, ret) ==
    /\ collectionCache' = [collectionCache EXCEPT ![c] = step.cache]
    /\ localStorage' = [localStorage EXCEPT ![c] = step.stored]
    /\ last' = ret
    /\ refused' = IF ret.error = "QuotaExceededError" THEN refused + 1 ELSE refused

\* Whether the browser refuses the next write
Refusals == IF refused < MaxRefused THEN BOOLEAN ELSE {FALSE}

\* The number of documents held, over all collections
totalDocs ==
    LET RECURSIVE sum(_)
        sum(cs) == IF cs = {} THEN 0
                   ELSE LET c == CHOOSE x \in cs : TRUE
                        IN  Len(loadItems(c).items) + sum(cs \ {c})
    IN  sum(Names)

Find ==
    \E c \in Names, q \in SeqFilters :
        LET step == find(c, q)
        IN  Commit(c, step, Brief(step.ret)) /\ UNCHANGED <<now, others>>

FindOne ==
    \E c \in Names, q \in SeqFilters :
        LET step == findOne(c, q)
        IN  Commit(c, step, Brief(step.ret)) /\ UNCHANGED <<now, others>>

CountDocuments ==
    \E c \in Names, q \in SeqFilters :
        LET step == countDocuments(c, q)
        IN  Commit(c, step, Brief(step.ret)) /\ UNCHANGED <<now, others>>

InsertOne ==
    \E c \in Names, doc \in SeqDocs, genId \in GeneratedIds, fails \in Refusals :
        LET step == insertOne(c, doc, genId, fails)
        IN  /\ totalDocs < MaxDocs
            /\ Commit(c, step, Brief(step.ret))
            /\ UNCHANGED <<now, others>>

InsertMany ==
    \E c \in Names, n \in 0..MaxDocs, fails \in Refusals :
        \E docs \in [1..n -> SeqDocs], genIds \in [1..n -> GeneratedIds] :
            LET step == insertMany(c, docs, genIds, fails)
            IN  /\ totalDocs + n <= MaxDocs
                /\ Commit(c, step, Brief(step.ret))
                /\ UNCHANGED <<now, others>>

UpdateOne ==
    \E c \in Names, q \in SeqFilters, u \in SeqUpdates, fails \in Refusals :
        LET step == updateOne(c, q, u, fails)
        IN  Commit(c, step, Brief(step.ret)) /\ UNCHANGED <<now, others>>

DeleteOne ==
    \E c \in Names, q \in SeqFilters, fails \in Refusals :
        LET step == deleteOne(c, q, fails)
        IN  Commit(c, step, Brief(step.ret)) /\ UNCHANGED <<now, others>>

InvalidateCache ==
    \E cs \in {{c} : c \in Names} \cup {Names} :
        /\ collectionCache' = invalidateCache(cs)
        /\ last' = [NoCall EXCEPT !.op = "invalidateCache"]
        /\ UNCHANGED <<localStorage, refused, now, others>>

Next ==
    \/ Find
    \/ FindOne
    \/ CountDocuments
    \/ InsertOne
    \/ InsertMany
    \/ UpdateOne
    \/ DeleteOne
    \/ InvalidateCache

Spec == Init /\ [][Next]_vars

(***************************************************************************)
(* SpecCall: one Store call on a collection whose content is drawn from   *)
(* the arrays below, served from the cache or read from localStorage.     *)
(* `last` keeps the whole call: its arguments and all it returned.        *)
(***************************************************************************)
MaxCallDocs == 2    \* documents in the collection the call is made on

StoredDocs ==
    { [_id |-> Str("id_1"), age |-> Num(30), createdAt |-> Iso(0), updatedAt |-> Iso(0)],
      [_id |-> Str("u1"), age |-> Num(10), createdAt |-> Iso(0), updatedAt |-> Iso(1)],
      [_id |-> Str("id_2"), age |-> Num(70), createdAt |-> Iso(1), updatedAt |-> Iso(1)],
      [_id |-> Str("id_1"), age |-> Str("5"), createdAt |-> Iso(1), updatedAt |-> Iso(1)],
      [_id |-> Str("id_2"), createdAt |-> Iso(0), updatedAt |-> Iso(1)],
      [_id |-> Obj([id |-> Str("id_1")]), age |-> Num(30)] }

Contents == UNION {[1..n -> StoredDocs] : n \in 0..MaxCallDocs}

InitCall ==
    /\ \E items \in Contents, cached \in BOOLEAN :
        /\ collectionCache = [c \in Names |->
                IF c = "designs" /\ cached THEN Cached(items) ELSE Absent]
        /\ localStorage = [c \in Names |->
                IF c = "designs" THEN JsonText(items) ELSE NoItem]
    /\ serviceCache = <<>>
    /\ now = 2
    /\ last = NoCall
    /\ calls = <<>>
    /\ refused = 0
    /\ probe = NoProbe

CallFind ==
    \E c \in Names, q \in Filters :
        LET step == find(c, q)
        IN  last.op = "none" /\ Commit(c, step, step.ret) /\ UNCHANGED <<now, others>>

CallFindOne ==
    \E c \in Names, q \in Filters :
        LET step == findOne(c, q)
        IN  last.op = "none" /\ Commit(c, step, step.ret) /\ UNCHANGED <<now, others>>

CallCountDocuments ==
    \E c \in Names, q \in Filters :
        LET step == countDocuments(c, q)
        IN  last.op = "none" /\ Commit(c, step, step.ret) /\ UNCHANGED <<now, others>>

CallInsertOne ==
    \E c \in Names, doc \in InputDocs, genId \in GeneratedIds, fails \in BOOLEAN :
        LET step == insertOne(c, doc, genId, fails)
        IN  last.op = "none" /\ Commit(c, step, step.ret) /\ UNCHANGED <<now, others>>

CallInsertMany ==
    \E c \in Names, n \in 0..MaxCallDocs, fails \in BOOLEAN :
        \E docs \in [1..n -> BatchDocs], genIds \in [1..n -> GeneratedIds] :
            LET step == insertMany(c, docs, genIds, fails)
            IN  last.op = "none" /\ Commit(c, step, step.ret) /\ UNCHANGED <<now, others>>

CallUpdateOne ==
    \E c \in Names, q \in Filters, u \in Updates, fails \in BOOLEAN :
        LET step == updateOne(c, q, u, fails)
        IN  last.op = "none" /\ Commit(c, step, step.ret) /\ UNCHANGED <<now, others>>

CallDeleteOne ==
    \E c \in Names, q \in Filters, fails \in BOOLEAN :
        LET step == deleteOne(c, q, fails)
        IN  last.op = "none" /\ Commit(c, step, step.ret) /\ UNCHANGED <<now, others>>

NextCall ==
    \/ CallFind
    \/ CallFindOne
    \/ CallCountDocuments
    \/ CallInsertOne
    \/ CallInsertMany
    \/ CallUpdateOne
    \/ CallDeleteOne

SpecCall == InitCall /\ [][NextCall]_vars

(***************************************************************************)
(* SpecMatcher: deepCompare applied to one field value and one filter     *)
(* value.                                                                 *)
(***************************************************************************)
ItemValues ==
    { Undefined, Null, Bool(TRUE), Bool(FALSE), Num(0), Num(10), Num(30), Num(70),
      Str("5"), Str("20"), Str("abc"), Str("") }

Operands == { Num(3), Num(18), Num(65), Str("5"), Str("abc"), Null, Bool(TRUE) }

OneOperator(key, x) == Obj([y \in {key} |-> x])
TwoOperators(key1, x1, key2, x2) ==
    Obj([y \in {key1, key2} |-> IF y = key1 THEN x1 ELSE x2])

ComparisonOperators == {"$gt", "$gte", "$lt", "$lte"}

QueryValues ==
    { OneOperator(key, x) : key \in ComparisonOperators \cup {"$ne", "$foo"}, x \in Operands }
    \cup { TwoOperators("$gte", x1, "$lte", x2) : x1 \in Operands, x2 \in Operands }
    \cup { TwoOperators("$gt", x, "$ne", Num(30)) : x \in Operands }
    \cup { TwoOperators("$in", Arr(<<Num(10), Str("5")>>), "$lt", x) : x \in Operands }
    \cup { OneOperator("$in", Arr(q)) : q \in {<<>>, <<Num(30)>>, <<Num(10), Str("abc"), Null>>} }
    \cup { TwoOperators("$regex", Str(pat), "$options", Str(flags)) :
                pat \in {"a", "A", "b"}, flags \in {"", "i"} }
    \cup { Null, Arr(<<Num(30)>>), Oid("abc"), Obj([id |-> Str("abc")]) }

InitMatcher ==
    /\ collectionCache = [c \in Names |-> Absent]
    /\ localStorage = [c \in Names |-> NoItem]
    /\ serviceCache = <<>>
    /\ now = 0
    /\ last = NoCall
    /\ calls = <<>>
    /\ refused = 0
    /\ probe \in {[item |-> v, query |-> q, result |-> "none"] :
                        v \in ItemValues, q \in QueryValues}

Compare ==
    /\ probe.result = "none"
    /\ probe' = [probe EXCEPT !.result =
                    IF deepCompare(probe.item, probe.query) THEN "true" ELSE "false"]
    /\ UNCHANGED <<collectionCache, localStorage, serviceCache, now, last, calls, refused>>

NextMatcher == Compare

SpecMatcher == InitMatcher /\ [][NextMatcher]_vars

(***************************************************************************)
(* SpecTwoInserts: two callers each await one insertOne on the empty      *)
(* collection "projects".  insertOne is an async function without an      *)
(* await: its body runs when it is called, and the caller resumes later,  *)
(* so the steps that interleave are the two calls and the two             *)
(* resumptions.                                                           *)
(***************************************************************************)
Callers == {1, 2}

Waiting(doc) == [pc |-> "start", doc |-> doc, outcome |-> "", id |-> Undefined]

InitTwoInserts ==
    /\ \E cached \in BOOLEAN, stored \in {NoItem, JsonText(<<>>)} :
        /\ collectionCache = [c \in Names |->
                IF c = "projects" /\ cached THEN Cached(<<>>) ELSE Absent]
        /\ localStorage = [c \in Names |-> IF c = "projects" THEN stored ELSE NoItem]
    /\ serviceCache = <<>>
    /\ now = 0
    /\ last = NoCall
    /\ calls \in [Callers -> {Waiting(doc) : doc \in InputDocs}]
    /\ refused = 0
    /\ probe = NoProbe

\* await db.collection('projects').insertOne(doc): the call
CallInsertOne2(p) ==
    /\ calls[p].pc = "start"
    /\ \E genId \in GeneratedIds, fails \in Refusals :
        LET step == insertOne("projects", calls[p].doc, genId, fails)
        IN  /\ Commit("projects", step, Brief(step.ret))
            /\ calls' = [calls EXCEPT ![p] =
                            [pc |-> "awaiting", doc |-> step.ret.doc,
                             outcome |-> step.ret.outcome, id |-> step.ret.id]]
    /\ UNCHANGED <<serviceCache, now, probe>>

\* ... and the caller resuming with the result
ResumeCaller(p) ==
    /\ calls[p].pc = "awaiting"
    /\ calls' = [calls EXCEPT ![p].pc = "done"]
    /\ UNCHANGED <<collectionCache, localStorage, serviceCache, now, last, refused, probe>>

CallInsert == \E p \in Callers : CallInsertOne2(p)
Resume == \E p \in Callers : ResumeCaller(p)

NextTwoInserts ==
    \/ CallInsert
    \/ Resume

SpecTwoInserts == InitTwoInserts /\ [][NextTwoInserts]_vars

(***************************************************************************)
(* The service layer, src/components/useAuth.tsx.  Cache keys and the     *)
(* argument of invalidateServiceCache are strings whose characters matter *)
(* (includes, replace, startsWith), so they are sequences of characters.  *)
(***************************************************************************)
\* 5 * 60 * 1000 milliseconds
CACHE_EXPIRATION == 5 * 60 * 1000

\* The characters of the identifiers the service methods are called with
Text(id) ==
    CASE id = "id_1" -> <<"i", "d", "_", "1">>
      [] id = "id_2" -> <<"i", "d", "_", "2">>
      [] id = "u1"   -> <<"u", "1">>
      [] OTHER       -> <<>>

design_  == <<"d", "e", "s", "i", "g", "n", "_">>
project_ == <<"p", "r", "o", "j", "e", "c", "t", "_">>
user_    == <<"u", "s", "e", "r", "_">>
users_   == <<"u", "s", "e", "r", "s", "_">>
getAll   == <<"g", "e", "t", "A", "l", "l">>
designs_getAll  == <<"d", "e", "s", "i", "g", "n", "s", "_">> \o getAll
projects_getAll == <<"p", "r", "o", "j", "e", "c", "t", "s", "_">> \o getAll

\* str.includes(ch)
includesChar(str, ch) == \E i \in 1..Len(str) : str[i] = ch

\* str.replace(ch, ''): a string pattern replaces its first occurrence only
replaceFirst(str, ch) ==
    IF ~includesChar(str, ch) THEN str
    ELSE LET i == CHOOSE j \in 1..Len(str) :
                    str[j] = ch /\ \A h \in 1..(j - 1) : str[h] # ch
         IN  SubSeq(str, 1, i - 1) \o SubSeq(str, i + 1, Len(str))

\* A variant of startsWith that looks for the prefix anywhere in the string
\* (String.includes); the prefix claims must tell it from startsWith.
occursIn(str, prefix) ==
    \E i \in 0..(Len(str) - Len(prefix)) : SubSeq(str, i + 1, i + Len(prefix)) = prefix

\* str.startsWith(prefix)
startsWith(str, prefix) ==
    Len(prefix) <= Len(str) /\ SubSeq(str, 1, Len(prefix)) = prefix

\* The optional argument of invalidateServiceCache
NoKey == [given |-> FALSE, str |-> <<>>]
Key(str) == [given |-> TRUE, str |-> str]

\* The object left after `delete cache[k]` for every k in gone
without(cache, gone) == [k \in (DOMAIN cache) \ gone |-> cache[k]]

\* A variant of the exact-key branch that drops every key the argument is a
\* prefix of; the exact-key claim must tell it from `delete serviceCache[key]`.
deleteKey_AsPrefix(cache, str) ==
    without(cache, {k \in DOMAIN cache : startsWith(k, str)})

\* delete serviceCache[key]        (useAuth.tsx:237)
deleteKey(cache, str) == without(cache, {str})

\* invalidateServiceCache(key?), useAuth.tsx:224-245, applied to the cache
\* object: `if (key)` is false for a missing key and for the empty string.
invalidateServiceCache(cache, key) ==
    IF key.given /\ key.str # <<>>
    THEN IF includesChar(key.str, "*")
         THEN LET prefix == replaceFirst(key.str, "*")
              IN  without(cache, {cacheKey \in DOMAIN cache : startsWith(cacheKey, prefix)})
         ELSE deleteKey(cache, key.str)
    ELSE without(cache, DOMAIN cache)

(***************************************************************************)
(* SpecInvalidate: invalidateServiceCache applied once to a cache drawn   *)
(* from the keys below.  `probe` keeps the argument and the cache the     *)
(* call started from.                                                     *)
(***************************************************************************)
MaxStamp == 1       \* timestamps of the entries drawn: 0..MaxStamp

Star == "*"

\* Keys the drawn caches hold: the keys the service methods build, a key that
\* contains design_ without starting with it, and keys built from identifiers
\* that contain a '*'
CacheKeys ==
    { design_ \o Text("id_1"), design_ \o Text("id_2"), designs_getAll,
      user_ \o design_ \o Text("id_1"),
      <<"a", "*", "b", "_", "1">>, <<"a", "b", "*", "1">> }

\* Arguments: none, the empty string, exact keys, and patterns
Arguments ==
    { NoKey, Key(<<>>) }
    \cup { Key(k) : k \in { design_ \o Text("id_1"), designs_getAll, design_,
                            <<"a", "b">>, <<"a", "*", "b", "_", "1">> } }
    \cup { Key(p \o <<Star>>) : p \in { design_, users_, <<>>, <<"a", "b">>,
                                        <<"a", "*", "b">>, <<"a", "b", "*">> } }

Entry(data, timestamp) == [data |-> data, timestamp |-> timestamp]

InitInvalidate ==
    /\ collectionCache = [c \in Names |-> Absent]
    /\ localStorage = [c \in Names |-> NoItem]
    /\ \E keys \in SUBSET CacheKeys, t \in 0..MaxStamp :
            serviceCache = [k \in keys |-> Entry(Str("a"), IF k = designs_getAll THEN 0 ELSE t)]
    /\ now = 0
    /\ last = NoCall
    /\ calls = <<>>
    /\ refused = 0
    /\ \E key \in Arguments :
            probe = [key |-> key, before |-> <<>>, result |-> "none"]

InvalidateServiceCache ==
    /\ probe.result = "none"
    /\ serviceCache' = invalidateServiceCache(serviceCache, probe.key)
    /\ probe' = [probe EXCEPT !.before = serviceCache, !.result = "done"]
    /\ UNCHANGED <<collectionCache, localStorage, now, last, calls, refused>>

NextInvalidate == InvalidateServiceCache

SpecInvalidate == InitInvalidate /\ [][NextInvalidate]_vars

(***************************************************************************)
(* SpecService: the cached reads of the service layer against the Store.  *)
(* A cached read checks serviceCache, then awaits connectToDatabase(),    *)
(* then awaits the Store read, then formats and stores the result; other  *)
(* callers run between its awaits.  calls[p] is the position of reader p. *)
(* The writes of this specification are not refused, and `last` is left   *)
(* alone.                                                                 *)
(***************************************************************************)
MaxReads == 2       \* cached reads started in one run

Readers == {1}

Methods ==
    { "designService.getAll", "designService.getById",
      "projectService.getAll", "projectService.getById", "userService.getById" }

byId(method) == method \notin {"designService.getAll", "projectService.getAll"}

ServiceNames == Names \cup {"users"}

ServiceIds == {"id_1"}

\* db.collection(...) of the method
collectionOf(method) ==
    CASE method \in {"designService.getAll", "designService.getById"} -> "designs"
      [] method \in {"projectService.getAll", "projectService.getById"} -> "projects"
      [] OTHER -> "users"

\* const cacheKey = ...   (useAuth.tsx:36, 76, 252, 287, 552)
cacheKeyOf(method, id) ==
    CASE method = "designService.getAll"   -> designs_getAll
      [] method = "designService.getById"  -> design_ \o Text(id)
      [] method = "projectService.getAll"  -> projects_getAll
      [] method = "projectService.getById" -> project_ \o Text(id)
      [] OTHER                             -> user_ \o Text(id)

\* A variant of the TTL test that still serves an entry at the very instant
\* its TTL elapses; the TTL claim must tell it from the test of the code.
isLive_AtExpiry(entry, t) == (t - entry.timestamp) <= CACHE_EXPIRATION

\* (Date.now() - cachedData.timestamp) < CACHE_EXPIRATION
isLive(entry, t) == (t - entry.timestamp) < CACHE_EXPIRATION

\* x.toString() of an identifier read from the Store: an ObjectId gives its id,
\* a plain object (an ObjectId that went through JSON) "[object Object]"
toStringOf(v) ==
    CASE v.t = "oid" -> Str(v.s)
      [] v.t \in {"obj", "arr"} -> Str("[object Object]")
      [] OTHER -> v

\* doc._id ? doc._id.toString() : doc._id
idOrString(doc) ==
    IF Truthy(Field(doc, "_id")) THEN toStringOf(Field(doc, "_id")) ELSE Field(doc, "_id")

\* project._id.toString() throws a TypeError on undefined and null
formatThrows(method, doc) ==
    method = "projectService.getById" /\ Field(doc, "_id").t \in {"undef", "null"}

\* The object the method builds from a document (useAuth.tsx:50-53, 100-103,
\* 266-269, 302-305, 566-570)
format(method, doc) ==
    CASE method = "userService.getById" ->
            Assign(Assign(doc, "_id", idOrString(doc)), "password", Undefined)
      [] method = "projectService.getById" ->
            Assign(doc, "id", toStringOf(Field(doc, "_id")))
      [] OTHER -> Assign(doc, "id", idOrString(doc))

Idle == [pc |-> "idle", method |-> "", id |-> "", key |-> <<>>, hit |-> FALSE,
         stale |-> FALSE, found |-> <<>>, outcome |-> "", result |-> Undefined]

\* The documents the collections hold at the start
Design1 == [_id |-> Str("id_1"), age |-> Num(30)]
User1   == [_id |-> Str("id_1"), password |-> Str("abc")]

ServiceStores(c) ==
    CASE c = "designs"  -> {JsonText(SampleDesigns), JsonText(<<Design1>>)}
      [] c = "projects" -> {NoItem, Corrupt, JsonText(<<Design1>>)}
      [] OTHER          -> {JsonText(<<User1>>)}

\* The instants at which something happens
Instants == {0, 1, CACHE_EXPIRATION, CACHE_EXPIRATION + 1}

InitService ==
    /\ collectionCache = [c \in ServiceNames |-> Absent]
    /\ localStorage \in
            {f \in [ServiceNames -> {NoItem, Corrupt, JsonText(SampleDesigns),
                                     JsonText(<<Design1>>), JsonText(<<User1>>)}] :
                \A c \in ServiceNames : f[c] \in ServiceStores(c)}
    /\ serviceCache = <<>>
    /\ now = 0
    /\ last = NoCall
    /\ calls = [p \in Readers |-> Idle]
    /\ refused = 0
    /\ probe = [reads |-> 0]

\* The head of a cached read, up to `await connectToDatabase()`
ServiceCall(p) ==
    /\ calls[p].pc = "idle"
    /\ probe.reads < MaxReads
    /\ \E method \in Methods :
        \E id \in (IF byId(method) THEN ServiceIds ELSE {""}) :
            LET cacheKey == cacheKeyOf(method, id)
                cached   == cacheKey \in DOMAIN serviceCache
                hit      == cached /\ isLive(serviceCache[cacheKey], now)
            IN  calls' = [calls EXCEPT ![p] =
                    [Idle EXCEPT !.pc = IF hit THEN "done" ELSE "connecting",
                                 !.method = method, !.id = id, !.key = cacheKey,
                                 !.hit = hit, !.stale = cached /\ ~hit,
                                 !.outcome = IF hit THEN "value" ELSE "",
                                 !.result = IF hit THEN serviceCache[cacheKey].data
                                            ELSE Undefined]]
    /\ probe' = [probe EXCEPT !.reads = @ + 1]
    /\ UNCHANGED <<collectionCache, localStorage, serviceCache, now, last, refused>>

\* db.collection(c).find({}).sort(...).toArray() or .findOne({_id:
\* toObjectId(id)}): the Store read runs when it is called.  What it throws is
\* caught by the method (try/catch, withErrorHandling), which then returns
\* null, or [] from getAll.
ServiceRead(p) ==
    /\ calls[p].pc = "connecting"
    /\ LET method == calls[p].method
           c      == collectionOf(method)
           step   == IF byId(method) THEN findOne(c, [_id |-> Oid(calls[p].id)])
                     ELSE find(c, <<>>)
       IN  /\ Commit(c, step, last)
           /\ calls' = [calls EXCEPT ![p] =
                IF step.ret.outcome = "throws"
                THEN [@ EXCEPT !.pc = "done", !.outcome = "error",
                               !.result = IF byId(method) THEN Null ELSE Arr(<<>>)]
                ELSE [@ EXCEPT !.pc = "reading", !.found = step.ret.items]]
    /\ UNCHANGED <<serviceCache, now, probe>>

\* A variant of ServiceStore that writes the two fields of an entry apart: the
\* data of this call next to the timestamp the key already had; the claim
\* about concurrent reads must tell it from the single assignment of the code.
ServiceStore_FieldByField(p) ==
    /\ calls[p].pc = "reading"
    /\ LET method == calls[p].method
           found  == calls[p].found
           data   == IF byId(method) THEN Obj(format(method, found[1]))
                     ELSE Arr([i \in 1..Len(found) |-> Obj(format(method, found[i]))])
           stamp0 == IF calls[p].key \in DOMAIN serviceCache
                     THEN serviceCache[calls[p].key].timestamp ELSE now
       IN  IF byId(method) /\ found = <<>>
           THEN /\ calls' = [calls EXCEPT ![p] =
                        [@ EXCEPT !.pc = "done", !.outcome = "null", !.result = Null]]
                /\ UNCHANGED serviceCache
           ELSE IF byId(method) /\ formatThrows(method, found[1])
           THEN /\ calls' = [calls EXCEPT ![p] =
                        [@ EXCEPT !.pc = "done", !.outcome = "error", !.result = Null]]
                /\ UNCHANGED serviceCache
           ELSE /\ serviceCache' =
                    [k \in DOMAIN serviceCache \cup {calls[p].key} |->
                        IF k = calls[p].key THEN Entry(data, stamp0) ELSE serviceCache[k]]
                /\ calls' = [calls EXCEPT ![p] =
                        [@ EXCEPT !.pc = "done", !.outcome = "value", !.result = data]]
    /\ UNCHANGED <<collectionCache, localStorage, now, last, refused, probe>>

\* The tail of a cached read, after the Store read: `if (!doc) return null`,
\* format, `serviceCache[cacheKey] = {data, timestamp: Date.now()}`, return
ServiceStore(p) ==
    /\ calls[p].pc = "reading"
    /\ LET method == calls[p].method
           found  == calls[p].found
           data   == IF byId(method) THEN Obj(format(method, found[1]))
                     ELSE Arr([i \in 1..Len(found) |-> Obj(format(method, found[i]))])
       IN  IF byId(method) /\ found = <<>>
           THEN /\ calls' = [calls EXCEPT ![p] =
                        [@ EXCEPT !.pc = "done", !.outcome = "null", !.result = Null]]
                /\ UNCHANGED serviceCache
           ELSE IF byId(method) /\ formatThrows(method, found[1])
           THEN /\ calls' = [calls EXCEPT ![p] =
                        [@ EXCEPT !.pc = "done", !.outcome = "error", !.result = Null]]
                /\ UNCHANGED serviceCache
           ELSE /\ serviceCache' =
                    [k \in DOMAIN serviceCache \cup {calls[p].key} |->
                        IF k = calls[p].key THEN Entry(data, now) ELSE serviceCache[k]]
                /\ calls' = [calls EXCEPT ![p] =
                        [@ EXCEPT !.pc = "done", !.outcome = "value", !.result = data]]
    /\ UNCHANGED <<collectionCache, localStorage, now, last, refused, probe>>

\* The caller has the result
ServiceReturn(p) ==
    /\ calls[p].pc = "done"
    /\ calls' = [calls EXCEPT ![p] = Idle]
    /\ UNCHANGED <<collectionCache, localStorage, serviceCache, now, last, refused, probe>>

\* projectService.delete(id), useAuth.tsx:401-412
ProjectDelete ==
    /\ \E id \in ServiceIds :
        LET step == deleteOne("projects", [_id |-> Oid(id)], FALSE)
        IN  Commit("projects", step, last)
    /\ UNCHANGED <<serviceCache, now, calls, probe>>

\* The documents a reader holds between its Store read and its resumption are
\* the objects of the cached array (findOne and toArray return them, not
\* copies), and updateOne assigns to the fields of the matched object in place
\* (mongodb.ts:253-260): the reader sees the document as the update left it.
\* before and after are the array of collection c around an updateOne, which
\* is the only writer of c while these readers run.
held(reads, c, before, after) ==
    [p \in DOMAIN reads |->
        IF reads[p].pc = "reading" /\ collectionOf(reads[p].method) = c
        THEN IF byId(reads[p].method)
             THEN LET i == findIndex(before, [_id |-> Oid(reads[p].id)])
                  IN  [reads[p] EXCEPT !.found = IF @ = <<>> \/ i = 0 THEN @ ELSE <<after[i]>>]
             ELSE [reads[p] EXCEPT !.found = after]
        ELSE reads[p]]

\* Another caller of the Store changes a design: updateOne, mongodb.ts:215-269
OtherUpdateOne ==
    /\ \E id \in ServiceIds, u \in SeqUpdates :
        LET step == updateOne("designs", [_id |-> Str(id)], u, FALSE)
        IN  /\ Commit("designs", step, last)
            /\ calls' = IF step.ret.n = 0 THEN calls
                        ELSE held(calls, "designs", loadItems("designs").items, step.cache.items)
    /\ UNCHANGED <<serviceCache, now, probe>>

\* invalidateServiceCache() and the calls of authService (useAuth.tsx:646, 707)
ServiceInvalidations ==
    { NoKey, Key(users_ \o <<Star>>), Key(design_ \o <<Star>>) }
    \cup { Key(user_ \o Text(id)) : id \in ServiceIds }

InvalidateService ==
    /\ \E key \in ServiceInvalidations :
        serviceCache' = invalidateServiceCache(serviceCache, key)
    /\ UNCHANGED <<collectionCache, localStorage, now, last, calls, refused, probe>>

\* Time passes
Tick ==
    /\ \E t \in Instants : t > now /\ now' = t
    /\ UNCHANGED <<collectionCache, localStorage, serviceCache, last, calls, refused, probe>>

CachedReadCall == \E p \in Readers : ServiceCall(p)
CachedReadRead == \E p \in Readers : ServiceRead(p)
CachedReadStore == \E p \in Readers : ServiceStore(p)
CachedReadReturn == \E p \in Readers : ServiceReturn(p)

NextService ==
    \/ CachedReadCall
    \/ CachedReadRead
    \/ CachedReadStore
    \/ CachedReadReturn
    \/ ProjectDelete
    \/ OtherUpdateOne
    \/ InvalidateService
    \/ Tick

SpecService == InitService /\ [][NextService]_vars

(***************************************************************************)
(* SpecProject: projectService.create and projectService.delete next to   *)
(* the cached reads, with the clock standing still (every entry stays     *)
(* within its TTL).  create awaits connectToDatabase, findOne on           *)
(* "designs" and insertOne on "projects", and the other callers run       *)
(* between these; probe.create is the frame of the call.                   *)
(***************************************************************************)
MaxProjects == 1    \* documents "projects" may hold when create is called

\* The title create is called with
ProjectTitle == Str("a")

\* const newProject = {...}       (useAuth.tsx:337-345)
newProject(designId, createdAt) ==
    [user |-> Str(""), design |-> Oid(designId), title |-> ProjectTitle,
     description |-> Str(""), status |-> Str("saved"),
     createdAt |-> createdAt, updatedAt |-> createdAt]

\* const project: Project = {...}, with designWithId   (useAuth.tsx:331-334, 354-363)
createdProject(insertedId, design, createdAt) ==
    Obj([_id |-> toStringOf(insertedId),
         user |-> Str(""),
         design |-> Obj(Assign(design, "_id", toStringOf(Field(design, "_id")))),
         title |-> ProjectTitle, description |-> Str(""), status |-> Str("saved"),
         createdAt |-> createdAt, updatedAt |-> createdAt])

NotCreating == [pc |-> "idle", designId |-> "", createdAt |-> Undefined,
                design |-> <<>>, result |-> Undefined]

InitProject ==
    /\ collectionCache = [c \in ServiceNames |-> Absent]
    /\ \E designs \in ServiceStores("designs"), projects \in {NoItem, JsonText(<<Design1>>)} :
        localStorage = [c \in ServiceNames |->
            CASE c = "designs"  -> designs
              [] c = "projects" -> projects
              [] OTHER          -> JsonText(<<User1>>)]
    /\ serviceCache = <<>>
    /\ now = 0
    /\ last = NoCall
    /\ calls = [p \in Readers |-> Idle]
    /\ refused = 0
    /\ probe = [reads |-> 0, create |-> NotCreating]

\* projectService.create(designId, title) up to `await connectToDatabase()`
\* (useAuth.tsx:320-322)
ProjectCreateCall ==
    /\ probe.create.pc = "idle"
    /\ Len(loadItems("projects").items) < MaxProjects
    /\ \E designId \in ServiceIds :
        probe' = [probe EXCEPT !.create = [NotCreating EXCEPT !.pc = "connecting",
                                                             !.designId = designId]]
    /\ UNCHANGED <<collectionCache, localStorage, serviceCache, now, last, calls, refused>>

\* `const now = new Date().toISOString()` and findOne on "designs", awaited
\* (useAuth.tsx:323-329): without the design, and when the read throws, the
\* catch of create returns null
ProjectCreateFind ==
    /\ probe.create.pc = "connecting"
    /\ LET read  == findOne("designs", [_id |-> Oid(probe.create.designId)])
           found == read.ret.outcome = "ok" /\ read.ret.n # 0
       IN  /\ Commit("designs", read, last)
           /\ probe' = [probe EXCEPT !.create =
                IF found
                THEN [@ EXCEPT !.pc = "inserting", !.createdAt = Iso(now),
                               !.design = read.ret.items[1]]
                ELSE [@ EXCEPT !.pc = "done", !.createdAt = Iso(now), !.result = Null]]
    /\ UNCHANGED <<serviceCache, now, calls>>

\* insertOne(newProject) on "projects", awaited, and the project built from
\* its result (useAuth.tsx:337-365)
ProjectCreateInsert ==
    /\ probe.create.pc = "inserting"
    /\ \E genId \in GeneratedIds :
        LET write == insertOne("projects",
                               newProject(probe.create.designId, probe.create.createdAt),
                               genId, FALSE)
        IN  /\ Commit("projects", write, last)
            /\ probe' = [probe EXCEPT !.create =
                    [@ EXCEPT !.pc = "done",
                              !.result = IF write.ret.outcome = "throws" THEN Null
                                         ELSE createdProject(write.ret.id, probe.create.design,
                                                             probe.create.createdAt)]]
    /\ UNCHANGED <<serviceCache, now, calls>>

\* The caller of create has the project, or null
ProjectCreateReturn ==
    /\ probe.create.pc = "done"
    /\ probe' = [probe EXCEPT !.create = NotCreating]
    /\ UNCHANGED <<collectionCache, localStorage, serviceCache, now, last, calls, refused>>

NextProject ==
    \/ CachedReadCall
    \/ CachedReadRead
    \/ CachedReadStore
    \/ CachedReadReturn
    \/ ProjectCreateCall
    \/ ProjectCreateFind
    \/ ProjectCreateInsert
    \/ ProjectCreateReturn
    \/ ProjectDelete

SpecProject == InitProject /\ [][NextProject]_vars

(***************************************************************************)
(* SpecTwoReads: two callers of designService.getAll / getById at once.   *)
(* Each cached read runs up to its first await when called and resumes    *)
(* twice (after connectToDatabase, after the Store read); the other       *)
(* caller, a writer of "designs" and the clock run in between.            *)
(***************************************************************************)
TwoReaders == {1, 2}

DesignReads == {"designService.getAll", "designService.getById"}

InitTwoReads ==
    /\ collectionCache = [c \in ServiceNames |-> Absent]
    /\ \E designs \in ServiceStores("designs") :
        localStorage = [c \in ServiceNames |->
            CASE c = "designs"  -> designs
              [] c = "projects" -> NoItem
              [] OTHER          -> JsonText(<<User1>>)]
    /\ serviceCache = <<>>
    /\ now = 0
    /\ last = NoCall
    /\ calls = [p \in TwoReaders |-> Idle]
    /\ refused = 0
    /\ probe = [reads |-> 0]

DesignReadCall == \E p \in TwoReaders : ServiceCall(p) /\ calls'[p].method \in DesignReads
DesignReadRead == \E p \in TwoReaders : ServiceRead(p)
DesignReadStore == \E p \in TwoReaders : ServiceStore(p)
DesignReadReturn == \E p \in TwoReaders : ServiceReturn(p)

NextTwoReads ==
    \/ DesignReadCall
    \/ DesignReadRead
    \/ DesignReadStore
    \/ DesignReadReturn
    \/ OtherUpdateOne
    \/ Tick

SpecTwoReads == InitTwoReads /\ [][NextTwoReads]_vars

(***************************************************************************)
(* The class ObjectId and toObjectId, mongodb.ts:54-73, 355-358.  An      *)
(* ObjectId is the value Oid(id) of its private field; genId is what      *)
(* _generateId returns when the constructor calls it.                     *)
(***************************************************************************)
\* A variant of the constructor that ignores its argument; the conversion
\* claim must tell it from the constructor of the code.
ObjectId_AlwaysGenerates(id, genId) == Oid(genId)

\* constructor(id?: string) { this.id = id || this._generateId(); }
ObjectId(id, genId) == IF Truthy(id) THEN Oid(id.s) ELSE Oid(genId)

\* toString() { return this.id; }
ObjectId_toString(x) == Str(x.s)

\* equals(otherId: ObjectId) { return this.id === otherId.toString(); }
ObjectId_equals(x, otherId) == StrictEquals(Str(x.s), ObjectId_toString(otherId))

\* export function toObjectId(id: string) { return new ObjectId(id); }
toObjectId(id, genId) == ObjectId(Str(id), genId)

(***************************************************************************)
(* SpecObjectId: two strings are converted with toObjectId, the first     *)
(* twice, and the ObjectIds are converted back and compared.  `probe`     *)
(* keeps the strings, what _generateId returns to each constructor, the   *)
(* ObjectIds and the results.                                             *)
(***************************************************************************)
\* The strings handed to toObjectId
IdStrings == {"", "20", "5", "[object Object]", "a", "abc", "b", "id_1", "id_2", "id_3", "u1"}

InitObjectId ==
    /\ collectionCache = [c \in Names |-> Absent]
    /\ localStorage = [c \in Names |-> NoItem]
    /\ serviceCache = <<>>
    /\ now = 0
    /\ last = NoCall
    /\ calls = <<>>
    /\ refused = 0
    /\ \E s \in IdStrings, t \in IdStrings, gens \in [1..4 -> GeneratedIds] :
        probe = [pc |-> "start", s |-> s, t |-> t, gens |-> gens,
                 x |-> Undefined, again |-> Undefined, y |-> Undefined,
                 str |-> Undefined, same |-> FALSE, back |-> FALSE, xy |-> FALSE]

\* const x = toObjectId(s), again = toObjectId(s), y = toObjectId(t)
ConvertToObjectId ==
    /\ probe.pc = "start"
    /\ probe' = [probe EXCEPT !.pc = "built",
                              !.x = toObjectId(probe.s, probe.gens[1]),
                              !.again = toObjectId(probe.s, probe.gens[2]),
                              !.y = toObjectId(probe.t, probe.gens[3])]
    /\ UNCHANGED <<collectionCache, localStorage, serviceCache, now, last, calls, refused>>

\* x.toString(), x.equals(again), toObjectId(x.toString()).equals(x), x.equals(y)
CompareObjectIds ==
    /\ probe.pc = "built"
    /\ probe' = [probe EXCEPT
            !.pc = "compared",
            !.str = ObjectId_toString(probe.x),
            !.same = ObjectId_equals(probe.x, probe.again),
            !.back = ObjectId_equals(
                        toObjectId(ObjectId_toString(probe.x).s, probe.gens[4]), probe.x),
            !.xy = ObjectId_equals(probe.x, probe.y)]
    /\ UNCHANGED <<collectionCache, localStorage, serviceCache, now, last, calls, refused>>

NextObjectId ==
    \/ ConvertToObjectId
    \/ CompareObjectIds

SpecObjectId == InitObjectId /\ [][NextObjectId]_vars

(***************************************************************************)
(* SpecInsertFind: insertOne(doc) on a collection whose content is drawn, *)
(* then findOne({_id: insertedId}), served from the cache or, after       *)
(* invalidateCache, read again from localStorage.  `probe` keeps the      *)
(* document handed in, the content before, and what the two calls         *)
(* returned.                                                              *)
(***************************************************************************)
\* Documents handed to insertOne: those of InputDocs, documents whose _id or
\* createdAt is an empty string, and one whose _id is an ObjectId
InsertDocs ==
    InputDocs
    \cup { [_id |-> Str(""), age |-> Num(30)],
           [age |-> Num(30), createdAt |-> Str("")],
           [_id |-> Oid("id_3"), age |-> Num(30)] }

InitInsertFind ==
    /\ \E items \in Contents, cached \in BOOLEAN, doc \in InsertDocs :
        /\ collectionCache = [c \in Names |->
                IF c = "designs" /\ cached THEN Cached(items) ELSE Absent]
        /\ localStorage = [c \in Names |->
                IF c = "designs" THEN JsonText(items) ELSE NoItem]
        /\ probe = [pc |-> "start", doc |-> doc, before |-> items,
                    inserted |-> NoCall, reloaded |-> FALSE, found |-> NoCall]
    /\ serviceCache = <<>>
    /\ now = 2
    /\ last = NoCall
    /\ calls = <<>>
    /\ refused = 0

\* const result = await db.collection('designs').insertOne(doc)
RoundTripInsertOne ==
    /\ probe.pc = "start"
    /\ \E genId \in GeneratedIds, fails \in BOOLEAN :
        LET step == insertOne("designs", probe.doc, genId, fails)
        IN  /\ Commit("designs", step, step.ret)
            /\ probe' = [probe EXCEPT
                            !.pc = IF step.ret.outcome = "ok" THEN "inserted" ELSE "failed",
                            !.inserted = step.ret]
    /\ UNCHANGED <<serviceCache, now, calls>>

\* invalidateCache('designs')
RoundTripInvalidate ==
    /\ probe.pc = "inserted"
    /\ ~probe.reloaded
    /\ collectionCache' = invalidateCache({"designs"})
    /\ probe' = [probe EXCEPT !.reloaded = TRUE]
    /\ UNCHANGED <<localStorage, serviceCache, now, last, calls, refused>>

\* await db.collection('designs').findOne({_id: result.insertedId})
RoundTripFindOne ==
    /\ probe.pc = "inserted"
    /\ LET step == findOne("designs", [_id |-> probe.inserted.id])
       IN  /\ Commit("designs", step, step.ret)
           /\ probe' = [probe EXCEPT !.pc = "found", !.found = step.ret]
    /\ UNCHANGED <<serviceCache, now, calls>>

NextInsertFind ==
    \/ RoundTripInsertOne
    \/ RoundTripInvalidate
    \/ RoundTripFindOne

SpecInsertFind == InitInsertFind /\ [][NextInsertFind]_vars

(***************************************************************************)
(* SpecLoad: one Store call on a collection whose cache entry and         *)
(* localStorage value are drawn independently of each other: localStorage *)
(* is shared with other tabs and may hold another array than the cache,   *)
(* or a text JSON.parse rejects.  `last` keeps the whole call.            *)
(***************************************************************************)
MaxCachedDocs == 1  \* documents in the cache entry the call starts from

\* The entries of collectionCache.designs the call may start from
CacheEntries ==
    {Absent} \cup {Cached(items) : items \in {x \in Contents : Len(x) <= MaxCachedDocs}}

\* The values of mock_designs the call may start from
StoredValues ==
    { NoItem, EmptyText, Corrupt, JsonText(<<>>),
      JsonText(<< [_id |-> Str("id_2"), age |-> Num(70), createdAt |-> Iso(1),
                   updatedAt |-> Iso(1)] >>) }

InitLoad ==
    /\ \E entry \in CacheEntries, stored \in StoredValues :
        /\ collectionCache = [c \in Names |-> IF c = "designs" THEN entry ELSE Absent]
        /\ localStorage = [c \in Names |-> IF c = "designs" THEN stored ELSE NoItem]
    /\ serviceCache = <<>>
    /\ now = 2
    /\ last = NoCall
    /\ calls = <<>>
    /\ refused = 0
    /\ probe = NoProbe

SpecLoad == InitLoad /\ [][NextCall]_vars

(***************************************************************************)
(* SpecBatch: one insertMany(docs) on the collection "designs", empty or  *)
(* holding one document.  `probe` keeps the batch handed in, the content  *)
(* before and the number of localStorage writes; `last` keeps the call.   *)
(***************************************************************************)
MaxBatch == 2       \* documents in one batch

\* Documents of a batch: those of BatchDocs, documents whose _id or createdAt
\* is an empty string, and one with its own _id and createdAt
BatchInsertDocs ==
    BatchDocs
    \cup { [_id |-> Str(""), age |-> Num(30)],
           [age |-> Num(30), createdAt |-> Str("")],
           [_id |-> Str("id_1"), age |-> Str("5"), createdAt |-> Iso(0)] }

BatchContents ==
    { <<>>,
      << [_id |-> Str("id_2"), age |-> Num(70), createdAt |-> Iso(1), updatedAt |-> Iso(1)] >> }

InitBatch ==
    /\ \E items \in BatchContents, cached \in BOOLEAN, n \in 0..MaxBatch :
        \E docs \in [1..n -> BatchInsertDocs] :
            /\ collectionCache = [c \in Names |->
                    IF c = "designs" /\ cached THEN Cached(items) ELSE Absent]
            /\ localStorage = [c \in Names |->
                    IF c = "designs" THEN JsonText(items) ELSE NoItem]
            /\ probe = [pc |-> "start", docs |-> docs, before |-> items, writes |-> 0]
    /\ serviceCache = <<>>
    /\ now = 2
    /\ last = NoCall
    /\ calls = <<>>
    /\ refused = 0

\* await db.collection('designs').insertMany(docs)
BatchInsertMany ==
    /\ probe.pc = "start"
    /\ \E genIds \in [1..Len(probe.docs) -> GeneratedIds], fails \in BOOLEAN :
        LET step == insertMany("designs", probe.docs, genIds, fails)
        IN  /\ Commit("designs", step, step.ret)
            /\ probe' = [probe EXCEPT
                            !.pc = "done",
                            !.writes = insertManyWrites("designs", probe.docs)]
    /\ UNCHANGED <<serviceCache, now, calls>>

NextBatch == BatchInsertMany

SpecBatch == InitBatch /\ [][NextBatch]_vars

(***************************************************************************)
(* Claims about the Store.                                                *)
(***************************************************************************)
\* The documents of collection c as the next operation would load them
contentOf(c) == loadItems(c).items

RecognisedOperators == {"$in", "$gt", "$gte", "$lt", "$lte", "$ne", "$regex", "$options"}
UnknownOperators == {"$foo"}

hasUnknownOperator(query) ==
    \E f \in DOMAIN query :
        query[f].t = "obj" /\ DOMAIN query[f].k \cap UnknownOperators # {}

\* C1: find(F).sort(...).toArray() returns exactly the documents of the
\* collection that match F (every field entry of F matches), in insertion
\* order.  After the call the cache entry holds the collection read.
C1_FindReturnsTheMatches ==
    (last.op = "find" /\ last.outcome = "ok")
        => last.items = filterItems(collectionCache[last.coll].items, last.query)

\* C2: whenever a collection has a cache entry, the entry equals the array
\* last persisted under the collection's localStorage key.
C2_CacheMirrorsStorage ==
    \A c \in Names :
        collectionCache[c].present
            => /\ localStorage[c].state # "corrupt"
               /\ localStorage[c].items = JsonRoundTrip(collectionCache[c].items)

\* C3: a mutating operation whose localStorage write is refused leaves the
\* localStorage value and the cache entry as they were before the call.
C3_RefusedWriteChangesNothing ==
    [][refused' # refused => UNCHANGED <<collectionCache, localStorage>>]_vars

\* C9: a filter with an unrecognised operator key, evaluated on a non-empty
\* collection by findOne, updateOne, deleteOne or countDocuments, fails with
\* a ValidationError.
C9_UnknownOperatorIsAnError ==
    ( /\ last.op \in {"findOne", "updateOne", "deleteOne", "countDocuments"}
      /\ hasUnknownOperator(last.query)
      /\ contentOf(last.coll) # <<>> )
        => (last.outcome = "throws" /\ last.error = "ValidationError")

(***************************************************************************)
(* Claims about the predicate matcher.                                    *)
(***************************************************************************)
\* The operators of an operator object that are predicates on the value
predicatesOf(q) == DOMAIN q.k \cap (ComparisonOperators \cup {"$in", "$ne"})

\* The object holds only predicates the matcher knows, and at least one
isOperatorObject(q) ==
    q.t = "obj" /\ DOMAIN q.k # {} /\ DOMAIN q.k = predicatesOf(q)

\* C8: for an operator object of several recognised operators the matcher
\* returns true iff every one of them, taken alone, holds of the value.
C8_OperatorsAreAnded ==
    (probe.result # "none" /\ isOperatorObject(probe.query))
        => ( probe.result = "true"
             <=> \A key \in DOMAIN probe.query.k :
                    deepCompare(probe.item, OneOperator(key, probe.query.k[key])) )

\* The order of JavaScript on two values of one primitive type
nativeLess(a, b) ==
    CASE a.t = "num" -> a.n < b.n
      [] a.t = "bool" -> a.n < b.n
      [] a.t = "str" -> StrRank(a.s) < StrRank(b.s)
      [] OTHER -> FALSE

nativeHolds(key, a, b) ==
    CASE key = "$gt"  -> nativeLess(b, a)
      [] key = "$gte" -> nativeLess(b, a) \/ a = b
      [] key = "$lt"  -> nativeLess(a, b)
      [] key = "$lte" -> nativeLess(a, b) \/ a = b

\* C10: each of $gt, $gte, $lt, $lte is false when the field value and the
\* operand are of different types, and is the native ordering when they are
\* of the same type.
C10_ComparisonsDoNotCoerce ==
    \A key \in ComparisonOperators :
        (probe.result # "none" /\ probe.query.t = "obj" /\ DOMAIN probe.query.k = {key})
            => LET x == probe.query.k[key]
               IN  probe.result = "true"
                    <=> (probe.item.t = x.t /\ nativeHolds(key, probe.item, x))

(***************************************************************************)
(* Claims about concurrent callers.                                       *)
(***************************************************************************)
bothInserted == \A p \in Callers : calls[p].pc = "done" /\ calls[p].outcome = "ok"

twoDistinct(items) ==
    /\ Len(items) = 2
    /\ ~StrictEquals(Field(items[1], "_id"), Field(items[2], "_id"))

\* C4: once two insertOne calls on the empty collection have both returned,
\* the collection (cache entry and localStorage) holds exactly 2 documents
\* and their identifiers differ.
C4_TwoInsertsTwoIdentifiers ==
    bothInserted
        => /\ collectionCache["projects"].present
           /\ twoDistinct(collectionCache["projects"].items)
           /\ localStorage["projects"].state = "json"
           /\ twoDistinct(localStorage["projects"].items)

\* Neither insert is lost: both documents are there, in the order of the calls
NeitherInsertLost ==
    bothInserted
        => /\ Len(collectionCache["projects"].items) = 2
           /\ Len(localStorage["projects"].items) = 2
           /\ \A p \in Callers :
                \E i \in 1..2 : collectionCache["projects"].items[i] = calls[p].doc

(***************************************************************************)
(* Claims about invalidateServiceCache.                                   *)
(***************************************************************************)
\* The argument is the pattern p*: it ends in the wildcard, p is what precedes
isPrefixPattern(key) ==
    key.given /\ key.str # <<>> /\ key.str[Len(key.str)] = Star

prefixOf(key) == SubSeq(key.str, 1, Len(key.str) - 1)

\* after is before without exactly the keys in gone; the entries kept are
\* unchanged (key, data and timestamp)
removesExactly(before, after, gone) ==
    /\ DOMAIN after = (DOMAIN before) \ gone
    /\ \A k \in DOMAIN after : after[k] = before[k]

\* C6, as stated: for every cache content and every pattern p*,
\* invalidateServiceCache(p*) removes exactly the entries whose key starts
\* with p and leaves every other entry unchanged.
C6_PrefixPatternRemovesPrefixed ==
    (probe.result = "done" /\ isPrefixPattern(probe.key))
        => removesExactly(probe.before, serviceCache,
                          {k \in DOMAIN probe.before : startsWith(k, prefixOf(probe.key))})

\* C6, amended: the same, for every prefix p that contains no wildcard.
C6_PlainPrefixRemovesPrefixed ==
    (probe.result = "done" /\ isPrefixPattern(probe.key)
        /\ ~includesChar(prefixOf(probe.key), Star))
        => LET p == prefixOf(probe.key)
           IN  /\ DOMAIN serviceCache =
                    {k \in DOMAIN probe.before :
                        ~(Len(p) <= Len(k) /\ \A i \in 1..Len(p) : k[i] = p[i])}
               /\ \A k \in DOMAIN serviceCache : serviceCache[k] = probe.before[k]

\* design_* was applied to a cache holding design_id_1, design_id_2 and
\* designs_getAll: the first two are gone, the third is kept
C6_Witness ==
    /\ probe.result = "done"
    /\ probe.key = Key(design_ \o <<Star>>)
    /\ {design_ \o Text("id_1"), design_ \o Text("id_2"), designs_getAll,
        user_ \o design_ \o Text("id_1")} \subseteq DOMAIN probe.before
    /\ designs_getAll \in DOMAIN serviceCache
    /\ design_ \o Text("id_1") \notin DOMAIN serviceCache
    /\ design_ \o Text("id_2") \notin DOMAIN serviceCache

\* C7, as stated: for every cache content and every key string k without a
\* wildcard, invalidateServiceCache(k) removes the entry under k (if any) and
\* leaves every entry under a different key unchanged.
C7_ExactKeyRemovesThatKey ==
    (probe.result = "done" /\ probe.key.given /\ ~includesChar(probe.key.str, Star))
        => removesExactly(probe.before, serviceCache, {probe.key.str})

\* C7, amended: the same, for every non-empty key string k without a wildcard.
C7_NonEmptyExactKeyRemovesThatKey ==
    (probe.result = "done" /\ probe.key.given /\ probe.key.str # <<>>
        /\ ~includesChar(probe.key.str, Star))
        => removesExactly(probe.before, serviceCache, {probe.key.str})

\* design_id_1 was invalidated in a cache that held it together with keys it is
\* a prefix of or shares a prefix with: only design_id_1 is gone
C7_Witness ==
    /\ probe.result = "done"
    /\ probe.key = Key(design_ \o Text("id_1"))
    /\ {design_ \o Text("id_1"), design_ \o Text("id_2"), designs_getAll}
            \subseteq DOMAIN probe.before
    /\ DOMAIN serviceCache = (DOMAIN probe.before) \ {design_ \o Text("id_1")}

(***************************************************************************)
(* Claims about the cached reads.                                         *)
(***************************************************************************)
\* Reader p makes the first step of a cached read
begins(p) == calls[p].pc = "idle" /\ calls'[p].pc # "idle"

\* Reader p, whose read found an expired entry, gets its result
endsStale(p) == calls[p].pc # "done" /\ calls'[p].pc = "done" /\ calls[p].stale

\* While the entry is younger than CACHE_EXPIRATION the read returns its data
\* and changes nothing; from then on the read is not answered from the entry
servedWhileLive(p) ==
    begins(p) =>
        LET key == calls'[p].key
        IN  key \in DOMAIN serviceCache =>
                IF now - serviceCache[key].timestamp < CACHE_EXPIRATION
                THEN /\ calls'[p].pc = "done"
                     /\ calls'[p].result = serviceCache[key].data
                     /\ serviceCache' = serviceCache
                ELSE calls'[p].pc = "connecting"

\* The entry under reader p's key holds what p returns, stamped now
replaced(p) ==
    /\ calls[p].key \in DOMAIN serviceCache'
    /\ serviceCache'[calls[p].key] = Entry(calls'[p].result, now)

\* C5, as stated: a cached read of an entry stored at t0 returns the stored
\* value at every t with t - t0 < CACHE_EXPIRATION; at t - t0 >=
\* CACHE_EXPIRATION it does not return the stored value but recomputes from
\* the Store and replaces the entry with a new timestamp.
C5_ExpiredReadReplacesEntry ==
    [][\A p \in Readers : servedWhileLive(p) /\ (endsStale(p) => replaced(p))]_vars

\* C5, amended: ... at t - t0 >= CACHE_EXPIRATION it does not return the stored
\* value but recomputes from the Store, and replaces the entry with a new
\* timestamp when the recomputation yields a value; when the Store read
\* throws or getById finds no document the read returns [] or null and
\* leaves serviceCache as it is.
C5_ExpiredReadRecomputes ==
    [][\A p \in Readers :
        /\ servedWhileLive(p)
        /\ endsStale(p) =>
                IF calls'[p].outcome = "value" THEN replaced(p)
                ELSE /\ serviceCache' = serviceCache
                     /\ calls'[p].result \in {Null, Arr(<<>>)}]_vars

\* A read that found an entry older than CACHE_EXPIRATION has recomputed: the
\* entry carries the new timestamp and the value the read returned
C5_Witness ==
    \E p \in Readers :
        /\ calls[p].pc = "done" /\ calls[p].stale /\ calls[p].outcome = "value"
        /\ calls[p].key \in DOMAIN serviceCache
        /\ serviceCache[calls[p].key] = Entry(calls[p].result, now)
        /\ now >= CACHE_EXPIRATION

(***************************************************************************)
(* Claims about filters and single-document operations of the Store.      *)
(***************************************************************************)
\* The call was findOne or countDocuments with a filter on the one field f
filtersOn(f) ==
    /\ last.op \in {"findOne", "countDocuments"}
    /\ last.outcome = "ok"
    /\ DOMAIN last.query = {f}

\* Every document of the collection lacks field f, and there is one
allLack(f) ==
    /\ contentOf(last.coll) # <<>>
    /\ \A i \in 1..Len(contentOf(last.coll)) : f \notin DOMAIN contentOf(last.coll)[i]

isNe(q) == q.t = "obj" /\ DOMAIN q.k = {"$ne"}
isIn(q) == q.t = "obj" /\ DOMAIN q.k = {"$in"} /\ q.k["$in"].t = "arr"
isPlain(q) == q.t \notin {"obj", "arr"}

\* What the call says about the documents: all of them match, or none does
allMatched ==
    IF last.op = "findOne" THEN last.n = 1 /\ last.items = <<contentOf(last.coll)[1]>>
    ELSE last.n = Len(contentOf(last.coll))

noneMatched ==
    IF last.op = "findOne" THEN last.items = <<>> ELSE last.n = 0

absentFieldRule(f) ==
    LET q == last.query[f]
    IN  /\ isNe(q) => allMatched
        /\ (isPlain(q) \/ isIn(q)) => noneMatched

\* C11, as stated: a document that lacks field f matches {f: {$ne: x}} and
\* matches neither {f: x} nor {f: {$in: xs}}, for every filter value x.
C11_AbsentFieldIsMissing ==
    \A f \in {"age"} : (filtersOn(f) /\ allLack(f)) => absentFieldRule(f)

\* The filter value is a value: not undefined, and no undefined among xs
isDefinedFilter(q) ==
    /\ q.t # "undef"
    /\ isNe(q) => q.k["$ne"].t # "undef"
    /\ isIn(q) => \A i \in 1..Len(q.k["$in"].e) : q.k["$in"].e[i].t # "undef"

\* C11, amended: the same, for every filter value x other than undefined.
C11_AbsentFieldIsMissingForValues ==
    \A f \in {"age"} :
        (filtersOn(f) /\ allLack(f) /\ isDefinedFilter(last.query[f]))
            => absentFieldRule(f)

\* findOne({age: {$ne: 30}}) on documents without age returned the first one
C11_Witness ==
    /\ filtersOn("age") /\ allLack("age")
    /\ last.op = "findOne"
    /\ isNe(last.query["age"])
    /\ last.n = 1
    /\ "age" \notin DOMAIN last.items[1]

\* Every field entry of the filter matches the document: the identifier entry
\* by the identifier's string, every other entry by the per-entry test
withoutId(query) == [key \in (DOMAIN query) \ {"_id"} |-> query[key]]

everyEntryMatches(item, query) ==
    /\ "_id" \in DOMAIN query
        => StrictEquals(IdString(Field(item, "_id")), IdString(query["_id"]))
    /\ everyKeyMatches(item, withoutId(query))

\* C12: findOne(F) returns the first document, in insertion order, for which
\* every field entry of F matches (filters that combine _id with other fields
\* included), and none when no document matches; findOne({}) returns the
\* first document.
C12_FindOneReturnsFirstMatch ==
    (last.op = "findOne" /\ last.outcome = "ok")
        => LET items == contentOf(last.coll)
               matching == {i \in 1..Len(items) : everyEntryMatches(items[i], last.query)}
           IN  IF matching = {} THEN last.items = <<>>
               ELSE \E i \in matching :
                        /\ \A j \in matching : i <= j
                        /\ last.n = i
                        /\ last.items = <<items[i]>>

(***************************************************************************)
(* Claims about insertOne and the round trip through findOne.             *)
(***************************************************************************)
\* insertOne has returned {insertedId, acknowledged: true}, nothing since
justInserted ==
    probe.pc = "inserted" /\ ~probe.reloaded /\ probe.inserted.outcome = "ok"

\* The document carries a value under f: the field is there and is neither
\* undefined nor null
hasValue(doc, f) == f \in DOMAIN doc /\ doc[f].t \notin {"undef", "null"}

\* ... and the value is not the empty string either
hasTruthy(doc, f) == hasValue(doc, f) /\ doc[f] # Str("")

\* new is doc with an identifier and the timestamps, where keepsId and
\* keepsCreated say whether the ones of doc are kept
stamped(new, doc, keepsId, keepsCreated) ==
    /\ DOMAIN new = DOMAIN doc \cup {"_id", "createdAt", "updatedAt"}
    /\ \A f \in (DOMAIN doc) \ {"_id", "createdAt", "updatedAt"} : new[f] = doc[f]
    /\ IF keepsId THEN new["_id"] = doc["_id"]
       ELSE new["_id"] \in {Str(g) : g \in GeneratedIds}
    /\ IF keepsCreated THEN new["createdAt"] = doc["createdAt"]
       ELSE new["createdAt"] = Iso(now)
    /\ new["updatedAt"] = Iso(now)

\* The collection is the content before followed by new, in the cache and in
\* localStorage, and new's identifier is the insertedId returned
appended(new) ==
    /\ collectionCache["designs"] = Cached(Append(probe.before, new))
    /\ localStorage["designs"] = JsonText(Append(probe.before, new))
    /\ probe.inserted.id = new["_id"]

lastCached == collectionCache["designs"].items[Len(collectionCache["designs"].items)]

\* C13, as stated: insertOne(doc) appends doc as the last document, assigns an
\* identifier only when doc has none (a supplied one is kept), keeps a
\* supplied createdAt and otherwise sets it to the current time, sets
\* updatedAt to the current time, and has written the new document to
\* localStorage when it returns.
C13_InsertOneAppendsAndStamps ==
    justInserted
        => /\ collectionCache["designs"].present
           /\ collectionCache["designs"].items # <<>>
           /\ appended(lastCached)
           /\ stamped(lastCached, probe.doc,
                      hasValue(probe.doc, "_id"), hasValue(probe.doc, "createdAt"))

\* C13, amended: the same, where the identifier and the createdAt of doc are
\* kept when they are truthy; an empty string (0, false) counts as none.
C13_InsertOneAppendsAndStampsTruthy ==
    justInserted
        => /\ collectionCache["designs"].present
           /\ collectionCache["designs"].items # <<>>
           /\ appended(lastCached)
           /\ stamped(lastCached, probe.doc,
                      hasTruthy(probe.doc, "_id"), hasTruthy(probe.doc, "createdAt"))

\* A document with its own _id and createdAt was appended to a collection
\* that held a document: both are kept, updatedAt is the current time
C13_Witness ==
    /\ justInserted
    /\ probe.before # <<>>
    /\ probe.doc = [_id |-> Str("id_1"), age |-> Str("5"), createdAt |-> Iso(0)]
    /\ localStorage["designs"].items[Len(probe.before) + 1] =
            [_id |-> Str("id_1"), age |-> Str("5"), createdAt |-> Iso(0), updatedAt |-> Iso(2)]

\* C14: insertOne(doc) followed by findOne({_id: insertedId}) returns a
\* document structurally equal to doc plus the assigned identifier and the
\* timestamps, from the cache and after invalidateCache from localStorage.
C14_InsertThenFindOneRoundTrip ==
    (probe.pc = "found" /\ probe.found.outcome = "ok")
        => /\ probe.found.items # <<>>
           /\ JsonDoc(probe.found.items[1]) = JsonDoc(probe.inserted.doc)

(***************************************************************************)
(* Claims about updateOne and deleteOne.  They relate the collection      *)
(* before a call (unprimed) to the collection after it (primed).          *)
(***************************************************************************)
\* The step is a call of op that returned
returns(op) == last'.op = op /\ last'.outcome = "ok"

\* The places of the documents of items for which every entry of query matches
placesMatching(items, query) ==
    {i \in 1..Len(items) : everyEntryMatches(items[i], query)}

firstOf(places) == CHOOSE i \in places : \A j \in places : i <= j

\* after is before with the fields of partial overwritten on document i and
\* its updatedAt refreshed; nothing else differs
updatedAt(before, after, i, partial) ==
    /\ Len(after) = Len(before)
    /\ \A j \in 1..Len(before) : j # i => after[j] = before[j]
    /\ DOMAIN after[i] = DOMAIN before[i] \cup DOMAIN partial \cup {"updatedAt"}
    /\ \A f \in DOMAIN after[i] :
            after[i][f] = IF f = "updatedAt" THEN Iso(now)
                          ELSE IF f \in DOMAIN partial THEN partial[f]
                          ELSE before[i][f]

\* after is before without document i
removedAt(before, after, i) ==
    /\ Len(after) = Len(before) - 1
    /\ \A j \in 1..Len(after) : after[j] = IF j < i THEN before[j] ELSE before[j + 1]

\* The collection of the call after it: the cache entry, and localStorage
\* holds the same array
leaves(c, after) ==
    /\ collectionCache'[c] = Cached(after)
    /\ localStorage'[c] = JsonText(after)

\* C15: when a document matches F, updateOne(F, {$set: partial}) overwrites
\* exactly the fields of partial on the first matching document, refreshes
\* its updatedAt, returns matchedCount = 1 and leaves every other document,
\* every other field, the order and the length unchanged.
C15_UpdateOneChangesFirstMatchOnly ==
    [][ \A c \in Names :
            ( /\ returns("updateOne") /\ last'.coll = c
              /\ "$set" \in DOMAIN last'.update
              /\ placesMatching(contentOf(c), last'.query) # {} )
                => /\ last'.n = 1
                   /\ updatedAt(contentOf(c), collectionCache'[c].items,
                                firstOf(placesMatching(contentOf(c), last'.query)),
                                last'.update["$set"])
                   /\ leaves(c, collectionCache'[c].items) ]_vars

\* C16: when no document matches F, updateOne(F, update) returns
\* matchedCount = 0 without an error and leaves the collection, the cache
\* entry and localStorage unchanged.
C16_UpdateOneWithoutMatch ==
    [][ \A c \in Names :
            ( /\ last'.op = "updateOne" /\ last'.coll = c
              /\ placesMatching(contentOf(c), last'.query) = {} )
                => /\ last'.outcome = "ok"
                   /\ last'.n = 0
                   /\ UNCHANGED <<collectionCache, localStorage>> ]_vars

\* C17: when a document matches F, deleteOne(F) removes exactly the first
\* matching document, returns deletedCount = 1 and leaves the others present,
\* unmodified and in their order.
C17_DeleteOneRemovesFirstMatchOnly ==
    [][ \A c \in Names :
            ( /\ returns("deleteOne") /\ last'.coll = c
              /\ placesMatching(contentOf(c), last'.query) # {} )
                => /\ last'.n = 1
                   /\ removedAt(contentOf(c), collectionCache'[c].items,
                                firstOf(placesMatching(contentOf(c), last'.query)))
                   /\ leaves(c, collectionCache'[c].items) ]_vars

\* No document of items carries identifier x
carriedByNone(items, x) ==
    \A i \in 1..Len(items) :
        ~StrictEquals(IdString(Field(items[i], "_id")), IdString(x))

\* C18: deleteOne({_id: x}) for an identifier x that no document carries
\* returns deletedCount = 0 without an error and leaves the collection and
\* localStorage unchanged.
C18_DeleteOneOfUnknownId ==
    [][ \A c \in Names :
            ( /\ last'.op = "deleteOne" /\ last'.coll = c
              /\ DOMAIN last'.query = {"_id"}
              /\ carriedByNone(contentOf(c), last'.query["_id"]) )
                => /\ last'.outcome = "ok"
                   /\ last'.n = 0
                   /\ UNCHANGED <<collectionCache, localStorage>> ]_vars

\* deleteOne({_id: 'id_3'}) was called on two documents, neither of them id_3
C18_Witness ==
    /\ last.op = "deleteOne"
    /\ last.query = [_id |-> Str("id_3")]
    /\ last.n = 0
    /\ Len(localStorage[last.coll].items) = 2
    /\ carriedByNone(localStorage[last.coll].items, Str("id_3"))

\* C19: no two documents of a collection carry the same identifier, whatever
\* insertOne, insertMany, updateOne and deleteOne calls were made.
C19_IdentifiersAreUnique ==
    \A c \in Names :
        \A i, j \in 1..Len(contentOf(c)) :
            i # j => ~StrictEquals(IdString(Field(contentOf(c)[i], "_id")),
                                   IdString(Field(contentOf(c)[j], "_id")))

\* C20: updateOne, whatever its filter and its $set, leaves the identifier of
\* every document as it was.
C20_UpdateOneKeepsIdentifiers ==
    [][ \A c \in Names :
            (last'.op = "updateOne" /\ last'.coll = c)
                => /\ Len(contentOf(c)') = Len(contentOf(c))
                   /\ \A i \in 1..Len(contentOf(c)) :
                        Field(contentOf(c)'[i], "_id") = Field(contentOf(c)[i], "_id") ]_vars

(***************************************************************************)
(* Claims about an unreadable backing medium and about what a call leaves *)
(* in localStorage.                                                       *)
(***************************************************************************)
StoreOperations ==
    {"find", "findOne", "countDocuments", "insertOne", "insertMany", "updateOne", "deleteOne"}

\* mock_<c> holds a text that cannot be parsed (JSON.parse rejects it: a
\* corrupt text, or the empty string) and collectionCache has no entry for c
unreadable(c) ==
    ~collectionCache[c].present /\ localStorage[c].state \in {"corrupt", "empty"}

\* The same, for a text that is not empty
unreadableText(c) == ~collectionCache[c].present /\ localStorage[c].state = "corrupt"

\* The operation on c made in this step fails: the SyntaxError reaches the
\* caller, no result is built and nothing is assigned
failsUnread(c) ==
    (last'.op \in StoreOperations /\ last'.coll = c)
        => /\ last'.outcome = "throws"
           /\ last'.error = "SyntaxError"
           /\ last'.items = <<>> /\ last'.n = 0
           /\ UNCHANGED <<collectionCache, localStorage>>

\* C21 as stated: when the localStorage value of c cannot be parsed and c is
\* not cached, every Store operation on c fails with an error that reaches the
\* caller; none returns an empty list, null or a zero count instead.
C21_UnreadableStoreFails ==
    [][ \A c \in Names : unreadable(c) => failsUnread(c) ]_vars

\* C21, amended: when the localStorage value of c is a non-empty text that
\* cannot be parsed and c is not cached, every Store operation on c fails with
\* an error that reaches the caller; none returns an empty list, null or a zero
\* count instead.
C21_UnreadableTextFails ==
    [][ \A c \in Names : unreadableText(c) => failsUnread(c) ]_vars

C21_Witness ==
    /\ last.op = "countDocuments" /\ last.coll = "designs" /\ last.query = <<>>
    /\ last.outcome = "throws"
    /\ unreadableText("designs")

\* An empty text is read as the empty collection, as an absent key is: the
\* reads answer from [] and cache it
EmptyTextIsReadAsEmpty ==
    [][ \A c \in Names :
            (/\ ~collectionCache[c].present /\ NoText(localStorage[c])
             /\ last'.op \in {"find", "findOne", "countDocuments"} /\ last'.coll = c)
                => /\ last'.outcome = "ok" /\ last'.items = <<>> /\ last'.n = 0
                   /\ collectionCache'[c] = Cached(<<>>) ]_vars

(***************************************************************************)
(* Claims about failures and concurrency in the service layer.            *)
(* A finished cached read has one of the outcomes "value" (data returned, *)
(* computed or cached), "null" (getById found no document) and "error"    *)
(* (the Store read or the formatting threw; the method caught it and      *)
(* returned null, or [] from getAll).  A read whose failure reached its   *)
(* caller would end "rejected".                                           *)
(***************************************************************************)
\* Reader p makes its Store read in this step and the read throws
storeReadFails(p) ==
    /\ calls[p].pc = "connecting"
    /\ calls'[p].pc # "connecting"
    /\ ~loadItems(collectionOf(calls[p].method)).ok

\* C22: when the Store read of a cached service read fails, the failure is
\* propagated to the caller of the read, and no serviceCache entry is created
\* or replaced under the read's key.
C22_FailedReadIsPropagated ==
    [][ \A p \in Readers :
            storeReadFails(p)
                => /\ calls'[p].pc = "done"
                   /\ calls'[p].outcome = "rejected"
                   /\ serviceCache' = serviceCache ]_vars

\* The half of C22 about the cache: a failed Store read ends the method and
\* leaves serviceCache as it is
FailedReadCachesNothing ==
    [][ \A p \in Readers :
            storeReadFails(p)
                => /\ calls'[p].pc = "done"
                   /\ serviceCache' = serviceCache ]_vars

\* The call was a mutating operation that succeeded and changed something
mutated(c) ==
    /\ last'.coll = c
    /\ last'.outcome = "ok"
    /\ \/ last'.op \in {"insertOne", "insertMany"}
       \/ last'.op \in {"updateOne", "deleteOne"} /\ last'.n = 1

\* C23: after every successful mutating operation on c, the one localStorage
\* key of c holds the serialisation of the entire current document array of
\* c, and the keys and cache entries of every other collection are unchanged.
C23_WholeCollectionIsPersisted ==
    [][ \A c \in Names :
            mutated(c)
                => /\ collectionCache'[c].present
                   /\ localStorage'[c] = JsonText(collectionCache'[c].items)
                   /\ Len(localStorage'[c].items) =
                        Len(contentOf(c))
                            + (CASE last'.op = "insertOne"  -> 1
                                 [] last'.op = "insertMany" -> last'.n
                                 [] last'.op = "deleteOne"  -> 0 - 1
                                 [] OTHER                   -> 0)
                   /\ \A d \in Names \ {c} :
                        /\ localStorage'[d] = localStorage[d]
                        /\ collectionCache'[d] = collectionCache[d] ]_vars

C23_Witness ==
    /\ last.op = "insertOne" /\ last.coll = "designs" /\ last.outcome = "ok"
    /\ Len(collectionCache["designs"].items) = 2
    /\ localStorage["designs"] = JsonText(collectionCache["designs"].items)
    /\ localStorage["projects"] = NoItem

(***************************************************************************)
(* Claims about insertMany.                                               *)
(***************************************************************************)
batchInserted == probe.pc = "done" /\ last.op = "insertMany" /\ last.outcome = "ok"

\* The documents insertMany added: those after the content before
addedDocs ==
    SubSeq(collectionCache["designs"].items,
           Len(probe.before) + 1, Len(collectionCache["designs"].items))

\* The content before is followed by as many documents as the batch has, in
\* the cache and in localStorage; the result counts them and lists their
\* identifiers in the order of the batch; localStorage was written once
batchAppended ==
    /\ collectionCache["designs"].present
    /\ Len(collectionCache["designs"].items) = Len(probe.before) + Len(probe.docs)
    /\ SubSeq(collectionCache["designs"].items, 1, Len(probe.before)) = probe.before
    /\ localStorage["designs"] = JsonText(collectionCache["designs"].items)
    /\ last.n = Len(probe.docs)
    /\ Len(last.ids) = Len(probe.docs)
    /\ \A i \in 1..Len(probe.docs) : last.ids[i] = addedDocs[i]["_id"]
    /\ probe.writes = 1

\* C24, as stated: insertMany(docs) appends the documents of docs in the given
\* order after the existing ones, stamps each as insertOne does (identifier
\* if absent, createdAt if absent, updatedAt set), returns insertedCount =
\* length of docs and insertedIds[i] = identifier of docs[i], and writes
\* localStorage exactly once for the batch.
C24_InsertManyAppendsAndStamps ==
    batchInserted
        => /\ batchAppended
           /\ \A i \in 1..Len(probe.docs) :
                stamped(addedDocs[i], probe.docs[i],
                        hasValue(probe.docs[i], "_id"), hasValue(probe.docs[i], "createdAt"))

\* C24, amended: the same, where the identifier and the createdAt of a
\* document are kept when they are truthy; an empty string counts as none.
C24_InsertManyAppendsAndStampsTruthy ==
    batchInserted
        => /\ batchAppended
           /\ \A i \in 1..Len(probe.docs) :
                stamped(addedDocs[i], probe.docs[i],
                        hasTruthy(probe.docs[i], "_id"), hasTruthy(probe.docs[i], "createdAt"))

\* A batch of a document without identifier and one with its own was appended
\* to a collection that held a document
C24_Witness ==
    /\ batchInserted
    /\ probe.before # <<>>
    /\ probe.docs = << [age |-> Num(30)], [_id |-> Str("u1"), age |-> Num(10)] >>
    /\ last.ids[2] = Str("u1")
    /\ last.ids[1] \in {Str(g) : g \in GeneratedIds}
    /\ Len(localStorage["designs"].items) = 3

\* Reader p starts a cached read in this step
begun(p) == calls[p].pc = "idle" /\ calls'[p].pc # "idle"

\* What projectService.getAll computes from the documents of "projects"
allProjects ==
    Arr([i \in 1..Len(contentOf("projects")) |->
            Obj(format("projectService.getAll", contentOf("projects")[i]))])

\* C25: after projectService.create or projectService.delete has completed
\* (no create is under way), no serviceCache entry computed before it is served: getAll returns the
\* projects the collection holds (the created one included, the deleted one
\* not), and getById of a project that is no longer there is not answered
\* from the cache, within the TTL of the entry too.
C25_ProjectMutationsInvalidate ==
    [][ \A p \in Readers :
            (begun(p) /\ calls'[p].hit /\ probe.create.pc = "idle")
                => /\ calls'[p].method = "projectService.getAll"
                        => calls'[p].result = allProjects
                   /\ calls'[p].method = "projectService.getById"
                        => ~carriedByNone(contentOf("projects"), Str(calls'[p].id)) ]_vars

(***************************************************************************)
(* Claims about concurrent calls.  No Store operation awaits anything, so *)
(* its body runs in one piece when it is called: the interleavings of     *)
(* asynchronous Store calls are the orders in which the calls are made.   *)
(***************************************************************************)
\* What an observer reads of collection c through the cache, and what
\* localStorage holds for it, both as JSON writes them
cacheView(c) == JsonRoundTrip(contentOf(c))
storedView(c) == parseStored(c)

\* C26: under every interleaving of Store calls on a collection c, no reader
\* and no other writer observes an intermediate state of a write: after every
\* step the cache entry and localStorage of c are both as before the write
\* or both as after it.
C26_WritesAreAtomic ==
    [][ \A c \in Names :
            (cacheView(c)' # cacheView(c)) <=> (storedView(c)' # storedView(c)) ]_vars

\* Reader p finishes its computation in this step and has a value
computed(p) ==
    calls[p].pc = "reading" /\ calls'[p].pc = "done" /\ calls'[p].outcome = "value"

\* What the method of p builds from the documents its Store read returned
formatted(p) ==
    IF byId(calls[p].method) THEN Obj(format(calls[p].method, calls[p].found[1]))
    ELSE Arr([i \in 1..Len(calls[p].found) |->
                Obj(format(calls[p].method, calls[p].found[i]))])

\* serviceCache changes at the key of p only, if at all
onlyAt(p) ==
    /\ DOMAIN serviceCache' = DOMAIN serviceCache \cup {calls[p].key}
    /\ \A k \in DOMAIN serviceCache : k # calls[p].key => serviceCache'[k] = serviceCache[k]

\* C27: under every interleaving of two cached reads of one key whose entry is
\* absent or expired, the entry is at any time the complete {data, timestamp}
\* pair written by one of the two calls, the later write replacing the
\* earlier, never a mixture, and each call returns what it computed.
C27_ConcurrentReadsStoreWholeEntries ==
    [][ \A p \in TwoReaders :
            /\ computed(p)
                => /\ calls'[p].result = formatted(p)
                   /\ serviceCache'[calls[p].key] = Entry(calls'[p].result, now)
                   /\ onlyAt(p)
            /\ (calls'[p] # calls[p] /\ ~computed(p))
                => serviceCache' = serviceCache ]_vars

\* Both calls computed the same key between them, from different documents at
\* different instants; the entry is the pair of the second, whole
C27_Witness ==
    /\ calls[1].pc = "done" /\ calls[2].pc = "done"
    /\ calls[1].key = designs_getAll /\ calls[2].key = designs_getAll
    /\ ~calls[1].hit /\ ~calls[2].hit
    /\ calls[1].outcome = "value" /\ calls[2].outcome = "value"
    /\ calls[1].result # calls[2].result
    /\ serviceCache[designs_getAll] = Entry(calls[2].result, now)
    /\ now = 1

(***************************************************************************)
(* Claims about ObjectId.                                                 *)
(***************************************************************************)
\* toObjectId(s).toString() = s and toObjectId(s).equals(toObjectId(s))
roundTrip == probe.str = Str(probe.s) /\ probe.same

\* toObjectId(x.toString()).equals(x), and x.equals(y) exactly when the two
\* string forms are equal
stableEquality ==
    /\ probe.back
    /\ probe.xy <=> (ObjectId_toString(probe.x) = ObjectId_toString(probe.y))

\* C28, as stated: for every identifier string s, toObjectId(s).toString() = s
\* and toObjectId(s).equals(toObjectId(s)); for every ObjectId x,
\* toObjectId(x.toString()).equals(x); two ObjectIds are equal iff their
\* string forms are equal.
C28_ObjectIdConversion ==
    probe.pc = "compared" => roundTrip /\ stableEquality

\* C28, amended: the same for every non-empty string s; the empty string is
\* replaced by a generated identifier.
C28_ObjectIdConversionNonEmpty ==
    probe.pc = "compared"
        => /\ probe.s # "" => roundTrip
           /\ probe.s = "" => probe.str \in {Str(g) : g \in GeneratedIds}
           /\ stableEquality

\* Two different strings were converted: each comes back as it was, the two
\* conversions of the first are equal, the ObjectIds of the two are not
C28_Witness ==
    /\ probe.pc = "compared"
    /\ probe.s = "u1" /\ probe.t = "id_1"
    /\ probe.str = Str("u1") /\ probe.same /\ probe.back /\ ~probe.xy

(***************************************************************************)
(* Claims about countDocuments and about where a read takes its data.     *)
(***************************************************************************)
\* One recognised operator, taken alone, holds of a field value: membership,
\* inequality, or the native order on two values of one type
operatorHolds(key, a, b) ==
    CASE key = "$in" -> b.t = "arr" /\ Includes(b.e, a)
      [] key = "$ne" -> ~StrictEquals(a, b)
      [] OTHER       -> a.t = b.t /\ nativeHolds(key, a, b)

\* The field entry key: q of a filter matches the document: every operator of
\* an operator object holds, and a value without operators is equal to the
\* field
entryHolds(item, key, q) ==
    IF isOperatorObject(q)
    THEN \A op \in DOMAIN q.k : operatorHolds(op, Field(item, key), q.k[op])
    ELSE IF TypeOf(q) = "object" /\ q.t # "null"
    THEN JsonStringifyEquals(Field(item, key), q)
    ELSE StrictEquals(Field(item, key), q)

\* The documents of items for which every field entry of query matches
matching(items, query) ==
    {i \in 1..Len(items) : \A key \in DOMAIN query : entryHolds(items[i], key, query[key])}

\* C29: countDocuments(c, F) returns the number of documents of c for which
\* every field entry of F matches, the total number of documents for the
\* empty filter, and never changes the collection.
C29_CountDocumentsCountsMatches ==
    [][ \A c \in Names :
            (returns("countDocuments") /\ last'.coll = c)
                => /\ last'.n = Cardinality(matching(contentOf(c), last'.query))
                   /\ contentOf(c)' = contentOf(c)
                   /\ localStorage' = localStorage ]_vars

\* What a read with this name and filter returns when it computes from items:
\* the documents returned and the number (the place found, or the count)
readResult(op, items, query) ==
    CASE op = "find" -> [items |-> items, n |-> 0]
      [] op = "findOne" ->
            [items |-> IF findIndex(items, query) = 0 THEN <<>>
                       ELSE <<items[findIndex(items, query)]>>,
             n |-> findIndex(items, query)]
      [] OTHER ->
            [items |-> <<>>,
             n |-> IF DOMAIN query = {} THEN Len(items) ELSE Len(filterItems(items, query))]

answers(items) ==
    /\ last'.outcome = "ok"
    /\ [items |-> last'.items, n |-> last'.n] = readResult(last'.op, items, last'.query)

\* C30: for every read on c, if collectionCache has an entry for c the result
\* is computed from that entry and localStorage is not read (whatever it
\* holds); otherwise the array is loaded from localStorage and is the cache
\* entry of c when the read returns.
C30_ReadsGoThroughTheCache ==
    [][ \A c \in Names :
            (last'.op \in {"find", "findOne", "countDocuments"} /\ last'.coll = c)
                => /\ localStorage' = localStorage
                   /\ collectionCache[c].present
                        => /\ answers(collectionCache[c].items)
                           /\ collectionCache' = collectionCache
                   /\ (~collectionCache[c].present /\ last'.outcome = "ok")
                        => /\ localStorage[c].state # "corrupt"
                           /\ answers(localStorage[c].items)
                           /\ collectionCache'[c] = Cached(localStorage[c].items) ]_vars

\* A read was answered from a cache entry of one document while localStorage
\* held a text that cannot be parsed
C30_Witness ==
    /\ last.op = "countDocuments" /\ last.coll = "designs" /\ last.query = <<>>
    /\ last.outcome = "ok" /\ last.n = 1
    /\ localStorage["designs"] = Corrupt
    /\ collectionCache["designs"].present

(***************************************************************************)
(* SpecProfile: authService.updateProfile next to userService.getById.    *)
(* updateProfile awaits connectToDatabase() and then updateOne, which     *)
(* runs in one piece when called; the call returns in a later job, and    *)
(* the readers run between these.  probe.update is the frame of the call, *)
(* probe.userId and probe.success what the last updateProfile returned.   *)
(***************************************************************************)
\* The `updates` argument of updateProfile
ProfileUpdates ==
    { [name |-> Str("a")],
      [name |-> Str(""), bio |-> Str("b")],
      [bio |-> Str("a"), role |-> Str("admin")] }

ProfileFields == {"name", "bio", "phone", "location", "website", "avatar"}

\* const profileUpdates = {updatedAt: ...}; if (updates.name) ... (useAuth.tsx:737-746)
profileUpdates(updates) ==
    [f \in {"updatedAt"} \cup {g \in DOMAIN updates \cap ProfileFields : Truthy(updates[g])} |->
        IF f = "updatedAt" THEN Iso(now) ELSE updates[f]]

NotUpdating == [pc |-> "idle", userId |-> "", updates |-> <<>>, success |-> FALSE]

InitProfile ==
    /\ collectionCache = [c \in ServiceNames |-> Absent]
    /\ \E users \in {NoItem, JsonText(<<User1>>)} :
        localStorage = [c \in ServiceNames |->
            CASE c = "designs"  -> JsonText(<<Design1>>)
              [] c = "projects" -> NoItem
              [] OTHER          -> users]
    /\ serviceCache = <<>>
    /\ now = 0
    /\ last = NoCall
    /\ calls = [p \in Readers |-> Idle]
    /\ refused = 0
    /\ probe = [reads |-> 0, userId |-> "", success |-> FALSE, update |-> NotUpdating]

\* authService.updateProfile(userId, updates) up to `await connectToDatabase()`
\* (useAuth.tsx:731-733)
UpdateProfileCall ==
    /\ probe.update.pc = "idle"
    /\ \E userId \in ServiceIds, updates \in ProfileUpdates :
        probe' = [probe EXCEPT !.update = [NotUpdating EXCEPT !.pc = "connecting",
                                                             !.userId = userId,
                                                             !.updates = updates]]
    /\ UNCHANGED <<collectionCache, localStorage, serviceCache, now, last, calls, refused>>

\* profileUpdates and updateOne on "users", awaited (useAuth.tsx:734-752);
\* what updateOne throws is caught and success: false returned
UpdateProfile ==
    /\ probe.update.pc = "connecting"
    /\ \E genId \in GeneratedIds :
        LET step == updateOne("users", [_id |-> toObjectId(probe.update.userId, genId)],
                              [x \in {"$set"} |-> profileUpdates(probe.update.updates)], FALSE)
        IN  /\ Commit("users", step, last)
            /\ calls' = IF step.ret.n = 0 THEN calls
                        ELSE held(calls, "users", contentOf("users"), step.cache.items)
            /\ probe' = [probe EXCEPT !.update =
                    [@ EXCEPT !.pc = "updated",
                              !.success = step.ret.outcome = "ok" /\ step.ret.n # 0]]
    /\ UNCHANGED <<serviceCache, now>>

\* `if (result.matchedCount === 0) return {success: false, ...}; return
\* {success: true, ...}` (useAuth.tsx:754-758): the caller has the result
UpdateProfileReturn ==
    /\ probe.update.pc = "updated"
    /\ probe' = [probe EXCEPT !.userId = probe.update.userId,
                              !.success = probe.update.success,
                              !.update = NotUpdating]
    /\ UNCHANGED <<collectionCache, localStorage, serviceCache, now, last, calls, refused>>

UserReadCall ==
    \E p \in Readers : ServiceCall(p) /\ calls'[p].method = "userService.getById"

NextProfile ==
    \/ UserReadCall
    \/ CachedReadRead
    \/ CachedReadStore
    \/ CachedReadReturn
    \/ UpdateProfileCall
    \/ UpdateProfile
    \/ UpdateProfileReturn
    \/ Tick

SpecProfile == InitProfile /\ [][NextProfile]_vars

(***************************************************************************)
(* Claims about the callers that mutate what the service layer caches.    *)
(***************************************************************************)
\* What userService.getById computes from the user the collection holds now
userNow(id) ==
    LET users == contentOf("users")
        i == findIndex(users, [_id |-> Oid(id)])
    IN  IF i = 0 THEN Null ELSE Obj(format("userService.getById", users[i]))

\* C31: after authService.updateProfile(userId, updates) has returned success,
\* a userService.getById(userId) called afterwards returns the user with the
\* updates applied, also when an entry user_<userId> stored before the update
\* is still within its TTL.
C31_UpdateProfileIsRead ==
    [][ \A p \in Readers :
            (/\ begun(p) /\ calls'[p].method = "userService.getById"
             /\ probe.success /\ probe.userId = calls'[p].id
             /\ calls'[p].pc = "done")
                => calls'[p].result = userNow(calls'[p].id) ]_vars

(***************************************************************************)
(* withRetry, mongodb.ts:609-638.  probe is the frame of one call: its    *)
(* arguments, its locals (attempt, delay, lastError), where it stands     *)
(* (pc), what each invocation of fn settled with (outcomes: fn is any     *)
(* function, so each invocation fulfils or rejects) and the delays of the *)
(* timers it set (waits).  The k-th invocation fulfils with Num(k) or     *)
(* rejects with Str of a letter that tells it from the others.            *)
(***************************************************************************)
MaxRetries == 2     \* maxRetries is drawn from -1..MaxRetries
MaxDelay == 3       \* initialDelay and maxDelay are drawn from 0..MaxDelay

\* A variant of the loop test that stops one attempt early; the claim about
\* the number of invocations must tell it from the test of the code.
loopRuns_OneShort(attempt, maxRetries) == attempt < maxRetries

\* attempt <= maxRetries        (mongodb.ts:618)
loopRuns(attempt, maxRetries) == attempt <= maxRetries

\* A variant of the backoff without the cap; the claim about the waits must
\* tell it from Math.min of the code.
nextDelay_Uncapped(delay, maxDelay) == delay * 2

\* Math.min(delay * 2, maxDelay)   (mongodb.ts:633)
nextDelay(delay, maxDelay) ==
    IF delay * 2 <= maxDelay THEN delay * 2 ELSE maxDelay

\* What the k-th invocation of fn rejects with
errorOf(k) == Str(<<"", "20", "5", "[object Object]", "a">>[k])

InitRetry ==
    /\ collectionCache = [c \in Names |-> Absent]
    /\ localStorage = [c \in Names |-> NoItem]
    /\ serviceCache = <<>>
    /\ now = 0
    /\ last = NoCall
    /\ calls = <<>>
    /\ refused = 0
    /\ \E maxRetries \in -1..MaxRetries, initialDelay \in 0..MaxDelay, maxDelay \in 0..MaxDelay :
            probe = [maxRetries |-> maxRetries, initialDelay |-> initialDelay,
                     maxDelay |-> maxDelay, pc |-> "loop", attempt |-> 0,
                     delay |-> initialDelay, lastError |-> Undefined,
                     outcomes |-> <<>>, waits |-> <<>>, result |-> Undefined]

\* The loop test; `await fn()` calls fn, or the loop is left and lastError thrown
RetryInvoke ==
    /\ probe.pc = "loop"
    /\ probe' = IF loopRuns(probe.attempt, probe.maxRetries)
                THEN [probe EXCEPT !.pc = "awaiting"]
                ELSE [probe EXCEPT !.pc = "threw", !.result = probe.lastError]
    /\ UNCHANGED <<collectionCache, localStorage, serviceCache, now, last, calls, refused>>

\* fn settles: `return await fn()`, or the catch block up to the timer
RetrySettle ==
    /\ probe.pc = "awaiting"
    /\ \E ok \in BOOLEAN :
        LET k == Len(probe.outcomes) + 1
            v == IF ok THEN Num(k) ELSE errorOf(k)
            settled == [probe EXCEPT !.outcomes = Append(@, [ok |-> ok, v |-> v])]
        IN  probe' =
                IF ok THEN [settled EXCEPT !.pc = "returned", !.result = v]
                ELSE IF probe.attempt = probe.maxRetries
                THEN [settled EXCEPT !.pc = "threw", !.lastError = v, !.result = v]
                ELSE [settled EXCEPT !.pc = "waiting", !.lastError = v,
                                     !.waits = Append(@, probe.delay)]
    /\ UNCHANGED <<collectionCache, localStorage, serviceCache, now, last, calls, refused>>

\* The timer fires: the delay is doubled up to maxDelay and the loop goes on
RetryResume ==
    /\ probe.pc = "waiting"
    /\ probe' = [probe EXCEPT !.pc = "loop", !.attempt = @ + 1,
                              !.delay = nextDelay(@, probe.maxDelay)]
    /\ UNCHANGED <<collectionCache, localStorage, serviceCache, now, last, calls, refused>>

NextRetry ==
    \/ RetryInvoke
    \/ RetrySettle
    \/ RetryResume

\* Every invocation of fn settles and every timer fires
SpecRetry == InitRetry /\ [][NextRetry]_vars /\ WF_vars(NextRetry)

(***************************************************************************)
(* Claims about withRetry and withFallback.                               *)
(***************************************************************************)
retryEnded == probe.pc \in {"returned", "threw"}

allFailed(outcomes) == \A i \in 1..Len(outcomes) : ~outcomes[i].ok

\* What holds of a call of withRetry at any time
retryBounded ==
    probe.maxRetries >= 0 =>
        /\ Len(probe.outcomes) <= probe.maxRetries + 1
        /\ allFailed(SubSeq(probe.outcomes, 1, Len(probe.outcomes) - 1))
        /\ probe.pc = "returned"
            => /\ probe.outcomes # <<>>
               /\ probe.outcomes[Len(probe.outcomes)].ok
               /\ probe.result = probe.outcomes[Len(probe.outcomes)].v
        /\ probe.pc = "threw"
            => /\ Len(probe.outcomes) = probe.maxRetries + 1
               /\ allFailed(probe.outcomes)
               /\ probe.result = probe.outcomes[Len(probe.outcomes)].v
        /\ (probe.outcomes # <<>> /\ probe.outcomes[Len(probe.outcomes)].ok)
            => probe.pc = "returned"

\* C32: withRetry(fn, maxRetries, initialDelay, maxDelay) with maxRetries >= 0
\* invokes fn at most maxRetries + 1 times, returns the value of the first
\* invocation that succeeds and does not invoke fn after it, raises the error
\* of the last invocation when all maxRetries + 1 invocations fail, and ends
\* when every invocation of fn ends.
C32_WithRetryIsBounded == []retryBounded /\ <>retryEnded

\* Two invocations failed and the third succeeded
C32_Witness ==
    /\ probe.pc = "returned" /\ probe.maxRetries = 2
    /\ Len(probe.outcomes) = 3 /\ probe.result = Num(3)

minOf(a, b) == IF a <= b THEN a ELSE b

\* The waits are the backoff sequence and lie between the attempts only
backoff(waits) ==
    /\ waits # <<>> => waits[1] = probe.initialDelay
    /\ \A i \in 2..Len(waits) : waits[i] = minOf(2 * waits[i - 1], probe.maxDelay)
    /\ Len(waits) <= Len(probe.outcomes)
    /\ (retryEnded /\ probe.outcomes # <<>>) => Len(waits) = Len(probe.outcomes) - 1

\* C33: for all non-negative initialDelay and maxDelay, every wait withRetry
\* performs between two attempts is at most maxDelay; the first wait is
\* initialDelay, each later wait is min(2 x previous wait, maxDelay), and no
\* wait is performed after the final failed attempt.
C33_WaitsAreCapped ==
    /\ \A i \in 1..Len(probe.waits) : probe.waits[i] <= probe.maxDelay
    /\ backoff(probe.waits)

\* C33 as amended: the first wait is initialDelay, whatever maxDelay is; every
\* later wait is min(2 x previous wait, maxDelay) and so at most maxDelay; the
\* first wait is at most maxDelay when initialDelay is; no wait is performed
\* after the final failed attempt.
C33_LaterWaitsAreCapped ==
    /\ \A i \in 1..Len(probe.waits) :
            (i > 1 \/ probe.initialDelay <= probe.maxDelay)
                => probe.waits[i] <= probe.maxDelay
    /\ backoff(probe.waits)

\* Three failed attempts: the second wait was cut to maxDelay, none followed
\* the last attempt
C33_Witness ==
    /\ probe.pc = "threw" /\ Len(probe.outcomes) = 3
    /\ probe.initialDelay = 2 /\ probe.maxDelay = 3
    /\ probe.waits = <<2, 3>>

(***************************************************************************)
(* withFallback, mongodb.ts:585-600.  probe is the frame of one call:     *)
(* fallbackValue, what kind of errorHandler was passed (none, one that    *)
(* returns, one that throws), what fn settled with, the arguments the     *)
(* errorHandler was called with, and how the call ended.                  *)
(***************************************************************************)
FallbackValues == {Undefined, Null, Num(0), Str("a"), Arr(<<>>)}

FnValues == {Undefined, Num(30), Str("a"), Arr(<<Num(10)>>)}

FnErrors == {Str("b"), Null, Obj([message |-> Str("a")])}

ErrorHandlers == {"none", "returns", "throws"}

\* What an errorHandler that throws raises
HandlerError == Str("c")

InitFallback ==
    /\ collectionCache = [c \in Names |-> Absent]
    /\ localStorage = [c \in Names |-> NoItem]
    /\ serviceCache = <<>>
    /\ now = 0
    /\ last = NoCall
    /\ calls = <<>>
    /\ refused = 0
    /\ \E fallbackValue \in FallbackValues, errorHandler \in ErrorHandlers :
            probe = [fallbackValue |-> fallbackValue, errorHandler |-> errorHandler,
                     pc |-> "called", fn |-> [ok |-> TRUE, v |-> Undefined],
                     handled |-> <<>>, outcome |-> "", result |-> Undefined]

\* try { return await fn() ...: fn is called
FallbackInvoke ==
    /\ probe.pc = "called"
    /\ probe' = [probe EXCEPT !.pc = "awaiting"]
    /\ UNCHANGED <<collectionCache, localStorage, serviceCache, now, last, calls, refused>>

\* fn fulfils and its value is returned, or fn rejects and the catch block
\* runs: errorHandler(error) if one was passed, console.error otherwise, then
\* `return fallbackValue`; what errorHandler throws leaves the catch block
FallbackSettle ==
    /\ probe.pc = "awaiting"
    /\ \E fn \in {[ok |-> TRUE, v |-> v] : v \in FnValues}
                    \cup {[ok |-> FALSE, v |-> e] : e \in FnErrors} :
        probe' =
            IF fn.ok
            THEN [probe EXCEPT !.pc = "done", !.fn = fn,
                               !.outcome = "returns", !.result = fn.v]
            ELSE IF probe.errorHandler = "none"
            THEN [probe EXCEPT !.pc = "done", !.fn = fn,
                               !.outcome = "returns", !.result = probe.fallbackValue]
            ELSE IF probe.errorHandler = "throws"
            THEN [probe EXCEPT !.pc = "done", !.fn = fn, !.handled = Append(@, fn.v),
                               !.outcome = "throws", !.result = HandlerError]
            ELSE [probe EXCEPT !.pc = "done", !.fn = fn, !.handled = Append(@, fn.v),
                               !.outcome = "returns", !.result = probe.fallbackValue]
    /\ UNCHANGED <<collectionCache, localStorage, serviceCache, now, last, calls, refused>>

NextFallback ==
    \/ FallbackInvoke
    \/ FallbackSettle

SpecFallback == InitFallback /\ [][NextFallback]_vars

\* C34: withFallback(fn, fallbackValue, errorHandler?) returns fn's result
\* when fn succeeds and fallbackValue whenever fn fails; it never raises an
\* error to its caller; an errorHandler that was passed is invoked exactly
\* once with fn's error when fn fails and never when fn succeeds.
C34_WithFallbackNeverRaises ==
    probe.pc = "done" =>
        /\ probe.outcome = "returns"
        /\ probe.result = IF probe.fn.ok THEN probe.fn.v ELSE probe.fallbackValue
        /\ probe.handled = IF probe.fn.ok \/ probe.errorHandler = "none"
                           THEN <<>> ELSE <<probe.fn.v>>

\* The same, for the calls whose errorHandler does not throw
WithFallbackOfQuietHandler ==
    (probe.pc = "done" /\ probe.errorHandler # "throws") =>
        /\ probe.outcome = "returns"
        /\ probe.result = IF probe.fn.ok THEN probe.fn.v ELSE probe.fallbackValue
        /\ probe.handled = IF probe.fn.ok \/ probe.errorHandler = "none"
                           THEN <<>> ELSE <<probe.fn.v>>

(***************************************************************************)
(* Claims that compare the operations of the Store with each other.       *)
(***************************************************************************)
\* The call made in this step is one of the three operations that look for a
\* single document, and it returned
lookedForOne ==
    /\ last'.op \in {"findOne", "updateOne", "deleteOne"}
    /\ last'.outcome = "ok"

\* countDocuments with the filter of that call, on the collection as the call
\* found it
countedBefore == countDocuments(last'.coll, last'.query).ret.n

\* C35: for every collection content and every filter F (filters on _id given
\* as a string or as an ObjectId included), findOne, updateOne, deleteOne and
\* countDocuments agree on which documents match: findOne(c, F) is not none,
\* updateOne(c, F, u) reports matchedCount = 1 and deleteOne(c, F) reports
\* deletedCount = 1 exactly when countDocuments(c, F) >= 1.
C35_OperationsAgreeOnMatches ==
    [][ lookedForOne => ((last'.n # 0) <=> (countedBefore >= 1)) ]_vars

\* The same, for the filters that carry no truthy _id
OperationsAgreeWithoutId ==
    [][ (lookedForOne /\ ~Truthy(Field(last'.query, "_id")))
            => ((last'.n # 0) <=> (countedBefore >= 1)) ]_vars

(***************************************************************************)
(* SpecInFlight: cached reads of "projects" in flight while another       *)
(* caller deletes a project and then invalidates keys of serviceCache.    *)
(* deleteOne splices a copy of the cached array and leaves its documents  *)
(* alone (mongodb.ts:273-274, 308-311), so what a reader holds between    *)
(* its Store read and its resumption is what it read.  probe.cleared is   *)
(* the set of keys that invalidations have covered since the last         *)
(* deletion.                                                              *)
(***************************************************************************)
ProjectReads == {"projectService.getAll", "projectService.getById"}

ProjectKeys == {cacheKeyOf(method, id) : method \in ProjectReads, id \in ServiceIds}

\* The arguments invalidateServiceCache is called with after a deletion
ProjectInvalidations ==
    { NoKey, Key(projects_getAll), Key(project_ \o <<Star>>) }

\* The keys of ProjectKeys a call invalidateServiceCache(key) deletes
covered(key) ==
    ProjectKeys \ DOMAIN invalidateServiceCache([k \in ProjectKeys |-> Entry(Null, 0)], key)

InitInFlight ==
    /\ collectionCache = [c \in ServiceNames |-> Absent]
    /\ \E projects \in {JsonText(<<Design1>>), JsonText(<<Design1, [_id |-> Str("id_2")]>>)} :
        localStorage = [c \in ServiceNames |->
            CASE c = "designs"  -> JsonText(<<Design1>>)
              [] c = "projects" -> projects
              [] OTHER          -> JsonText(<<User1>>)]
    /\ serviceCache = <<>>
    /\ now = 0
    /\ last = NoCall
    /\ calls = [p \in Readers |-> Idle]
    /\ refused = 0
    /\ probe = [reads |-> 0, deleted |-> FALSE, cleared |-> {}]

ProjectReadCall ==
    \E p \in Readers : ServiceCall(p) /\ calls'[p].method \in ProjectReads

\* Another caller deletes a project: db.collection('projects').deleteOne(
\* {_id: toObjectId(id)}), as in projectService.delete (useAuth.tsx:405); the
\* call runs in one piece
InFlightDelete ==
    /\ \E id \in ServiceIds :
        LET step == deleteOne("projects", [_id |-> Oid(id)], FALSE)
        IN  /\ Commit("projects", step, last)
            /\ probe' = IF step.ret.n = 0 THEN probe
                        ELSE [probe EXCEPT !.deleted = TRUE, !.cleared = {}]
    /\ UNCHANGED <<serviceCache, now, calls>>

\* invalidateServiceCache(key), useAuth.tsx:224-245, by the caller that
\* deleted, in the same job as the deleteOne or in a later one
InFlightInvalidate ==
    /\ probe.deleted
    /\ \E key \in ProjectInvalidations :
        /\ serviceCache' = invalidateServiceCache(serviceCache, key)
        /\ probe' = [probe EXCEPT !.cleared = @ \cup covered(key)]
    /\ UNCHANGED <<collectionCache, localStorage, now, last, calls, refused>>

NextInFlight ==
    \/ ProjectReadCall
    \/ CachedReadRead
    \/ CachedReadStore
    \/ CachedReadReturn
    \/ InFlightDelete
    \/ InFlightInvalidate

SpecInFlight == InitInFlight /\ [][NextInFlight]_vars

\* What the method computes from "projects" as it is now: none for getById of
\* a project that is not there
computedNow(method, id) ==
    IF byId(method)
    THEN LET i == findIndex(contentOf("projects"), [_id |-> Oid(id)])
         IN  IF i = 0 THEN Null
             ELSE Obj(format(method, contentOf("projects")[i]))
    ELSE allProjects

noneInFlight == \A p \in Readers : calls[p].pc \in {"idle", "done"}

\* C36: a cached read that started computing before invalidateServiceCache
\* was called for its key never leaves its earlier result under that key
\* after the invalidation: under every interleaving, once a mutation followed
\* by the invalidation of a key has completed and every read in flight has
\* finished, the entry of that key, if there is one, holds what the
\* collection holds since the mutation.
C36_NoStaleEntryAfterInvalidation ==
    noneInFlight =>
        \A method \in ProjectReads, id \in ServiceIds :
            LET key == cacheKeyOf(method, IF byId(method) THEN id ELSE "")
            IN  (key \in probe.cleared /\ key \in DOMAIN serviceCache)
                    => serviceCache[key].data = computedNow(method, id)

(***************************************************************************)
(* SpecFavorites: callers of favoriteService.addFavorite and              *)
(* removeFavorite, useAuth.tsx:434-487.  addFavorite awaits               *)
(* connectToDatabase(), then findOne, then insertOne; removeFavorite      *)
(* awaits connectToDatabase(), then deleteOne; the other callers run      *)
(* between the awaits.  calls[p] is the position of caller p; the Store   *)
(* keeps "favorites" under mock_favorites and has no index (createIndex   *)
(* of ContactPage.tsx:552 is not part of mockDb, mongodb.ts:89-346).      *)
(***************************************************************************)
MaxAdds == 3        \* calls of addFavorite started in one run
MaxRemoves == 1     \* calls of removeFavorite started in one run

FavoriteCallers == {1, 2}

FavoriteUsers == {"u1", "u2"}

FavoriteDesigns == {"id_1"}

NotAdding == [pc |-> "idle", userId |-> "", designId |-> "", found |-> FALSE,
              before |-> <<>>, outcome |-> "", result |-> <<>>]

InitFavorites ==
    /\ collectionCache = [c \in {"favorites"} |-> Absent]
    /\ localStorage \in {[c \in {"favorites"} |-> s] : s \in {NoItem, JsonText(<<>>)}}
    /\ serviceCache = <<>>
    /\ now = 0
    /\ last = NoCall
    /\ calls = [p \in FavoriteCallers |-> NotAdding]
    /\ refused = 0
    /\ probe = [adds |-> 0, removes |-> 0]

\* addFavorite(userId, designId) up to `await connectToDatabase()`
AddFavoriteCall(p) ==
    /\ calls[p].pc = "idle"
    /\ probe.adds < MaxAdds
    /\ \E userId \in FavoriteUsers, designId \in FavoriteDesigns :
        calls' = [calls EXCEPT ![p] =
                    [NotAdding EXCEPT !.pc = "connecting", !.userId = userId,
                                      !.designId = designId]]
    /\ probe' = [probe EXCEPT !.adds = @ + 1]
    /\ UNCHANGED <<collectionCache, localStorage, serviceCache, now, last, refused>>

\* const existingFavorite = await db.collection('favorites').findOne({userId,
\* designId: toObjectId(designId)}): the findOne runs when it is called
AddFavoriteFind(p) ==
    /\ calls[p].pc = "connecting"
    /\ \E genId \in GeneratedIds :
        LET step == findOne("favorites",
                            [userId |-> Str(calls[p].userId),
                             designId |-> toObjectId(calls[p].designId, genId)])
        IN  /\ Commit("favorites", step, last)
            /\ calls' = [calls EXCEPT ![p] =
                    [@ EXCEPT !.pc = "finding", !.found = step.ret.n # 0,
                              !.before = step.ret.items]]
    /\ UNCHANGED <<serviceCache, now, probe>>

\* After the findOne: the existing favourite is returned with its _id as a
\* string, or newFavorite is built and insertOne is called
AddFavoriteInsert(p) ==
    /\ calls[p].pc = "finding"
    /\ IF calls[p].found
       THEN /\ calls' = [calls EXCEPT ![p] =
                    [@ EXCEPT !.pc = "done", !.outcome = "existing",
                              !.result = Assign(calls[p].before[1], "_id",
                                                toStringOf(Field(calls[p].before[1], "_id")))]]
            /\ UNCHANGED <<collectionCache, localStorage, last, refused>>
       ELSE \E genId \in GeneratedIds :
            LET newFavorite == [userId |-> Str(calls[p].userId),
                                designId |-> toObjectId(calls[p].designId, genId),
                                createdAt |-> Iso(now)]
                step == insertOne("favorites", newFavorite, genId, FALSE)
            IN  /\ Commit("favorites", step, last)
                /\ calls' = [calls EXCEPT ![p] =
                        [@ EXCEPT !.pc = "inserting", !.outcome = "inserted",
                                  !.result = Assign(step.ret.doc, "_id",
                                                    toStringOf(step.ret.id))]]
    /\ UNCHANGED <<serviceCache, now, probe>>

\* After the insertOne, and the caller has the result
AddFavoriteReturn(p) ==
    /\ calls[p].pc \in {"inserting", "done"}
    /\ calls' = [calls EXCEPT ![p] = NotAdding]
    /\ UNCHANGED <<collectionCache, localStorage, serviceCache, now, last, refused, probe>>

\* removeFavorite(userId, designId) up to `await connectToDatabase()`
RemoveFavoriteCall(p) ==
    /\ calls[p].pc = "idle"
    /\ probe.removes < MaxRemoves
    /\ \E userId \in FavoriteUsers, designId \in FavoriteDesigns :
        calls' = [calls EXCEPT ![p] =
                    [NotAdding EXCEPT !.pc = "removing", !.userId = userId,
                                      !.designId = designId]]
    /\ probe' = [probe EXCEPT !.removes = @ + 1]
    /\ UNCHANGED <<collectionCache, localStorage, serviceCache, now, last, refused>>

\* const result = await db.collection('favorites').deleteOne({userId,
\* designId: toObjectId(designId)}): the deleteOne runs when it is called;
\* what it throws is caught and false returned
RemoveFavoriteDelete(p) ==
    /\ calls[p].pc = "removing"
    /\ \E genId \in GeneratedIds :
        LET step == deleteOne("favorites",
                              [userId |-> Str(calls[p].userId),
                               designId |-> toObjectId(calls[p].designId, genId)], FALSE)
        IN  /\ Commit("favorites", step, last)
            /\ calls' = [calls EXCEPT ![p] =
                    [@ EXCEPT !.pc = "removed",
                              !.outcome = IF step.ret.outcome = "ok" /\ step.ret.n > 0
                                          THEN "true" ELSE "false"]]
    /\ UNCHANGED <<serviceCache, now, probe>>

\* return result.deletedCount > 0, and the caller has the result
RemoveFavoriteReturn(p) ==
    /\ calls[p].pc = "removed"
    /\ calls' = [calls EXCEPT ![p] = NotAdding]
    /\ UNCHANGED <<collectionCache, localStorage, serviceCache, now, last, refused, probe>>

FavoriteCall == \E p \in FavoriteCallers : AddFavoriteCall(p)
FavoriteFind == \E p \in FavoriteCallers : AddFavoriteFind(p)
FavoriteInsert == \E p \in FavoriteCallers : AddFavoriteInsert(p)
FavoriteReturn == \E p \in FavoriteCallers : AddFavoriteReturn(p)
UnfavoriteCall == \E p \in FavoriteCallers : RemoveFavoriteCall(p)
UnfavoriteDelete == \E p \in FavoriteCallers : RemoveFavoriteDelete(p)
UnfavoriteReturn == \E p \in FavoriteCallers : RemoveFavoriteReturn(p)

NextFavorites ==
    \/ FavoriteCall
    \/ FavoriteFind
    \/ FavoriteInsert
    \/ FavoriteReturn
    \/ UnfavoriteCall
    \/ UnfavoriteDelete
    \/ UnfavoriteReturn

SpecFavorites == InitFavorites /\ [][NextFavorites]_vars

\* The places of the favourites of one (userId, designId) pair
favouritesOf(items, userId, designId) ==
    {i \in 1..Len(items) :
        /\ Field(items[i], "userId") = Str(userId)
        /\ JsonStringifyEquals(Field(items[i], "designId"), Oid(designId))}

\* Caller p resumes after its findOne in this step, for a pair that is
\* favourited by now
resumesOnFavourited(p) ==
    /\ calls[p].pc = "finding" /\ calls'[p].pc # "finding"
    /\ favouritesOf(contentOf("favorites"), calls[p].userId, calls[p].designId) # {}

\* C37: under every interleaving of calls of favoriteService.addFavorite, the
\* favorites collection holds at most one document for each (userId,
\* designId) pair, and a call for a pair that is already favourited inserts
\* nothing and returns the existing favourite.
C37_OneFavouritePerPair ==
    [][ /\ \A userId \in FavoriteUsers, designId \in FavoriteDesigns :
            Cardinality(favouritesOf(contentOf("favorites")', userId, designId)) <= 1
        /\ \A p \in FavoriteCallers :
            resumesOnFavourited(p)
                => /\ contentOf("favorites")' = contentOf("favorites")
                   /\ calls'[p].outcome = "existing" ]_vars

\* The same, for a call that finds the pair favourited when its findOne runs
FoundFavouriteIsReturned ==
    [][ \A p \in FavoriteCallers :
            (calls[p].pc = "finding" /\ calls[p].found /\ calls'[p].pc # "finding")
                => /\ contentOf("favorites")' = contentOf("favorites")
                   /\ calls'[p].outcome = "existing"
                   /\ calls'[p].result["userId"] = Str(calls[p].userId) ]_vars

(***************************************************************************)
(* SpecSamples: createCollections and insertSampleDesigns,                *)
(* ContactPage.tsx:572-642, next to the reads of the Store on "designs".  *)
(* They write the keys of localStorage themselves; a refused write is     *)
(* caught and logged.  `last` keeps the whole of the last call.           *)
(***************************************************************************)
\* const designs = [{_id: 'id_' + Math.random()..., ...}, {...}]
sampleDesigns(id1, id2) ==
    << [_id |-> Str(id1), title |-> Str("a"), createdAt |-> Iso(now), updatedAt |-> Iso(now)],
       [_id |-> Str(id2), title |-> Str("b"), createdAt |-> Iso(now), updatedAt |-> Iso(now)] >>

InitSamples ==
    /\ collectionCache = [c \in Names |-> Absent]
    /\ \E designs \in {NoItem, EmptyText, JsonText(SampleDesigns), JsonText(<<Design1>>)} :
        localStorage = [c \in Names |-> IF c = "designs" THEN designs ELSE NoItem]
    /\ serviceCache = <<>>
    /\ now = 1
    /\ last = NoCall
    /\ calls = <<>>
    /\ refused = 0
    /\ probe = NoProbe

\* insertSampleDesigns(db) in a browser
InsertSampleDesigns ==
    \E id1 \in GeneratedIds, id2 \in GeneratedIds, fails \in Refusals :
        /\ localStorage' = IF fails THEN localStorage
                           ELSE [localStorage EXCEPT
                                    !["designs"] = JsonText(sampleDesigns(id1, id2))]
        /\ last' = [NoCall EXCEPT !.op = "insertSampleDesigns", !.coll = "designs",
                                  !.outcome = IF fails THEN "caught" ELSE "ok"]
        /\ refused' = IF fails THEN refused + 1 ELSE refused
        /\ UNCHANGED <<collectionCache, now, others>>

\* The keys createCollections goes through, in its order (ContactPage.tsx:576-590)
CollectionKeys == <<"users", "designs", "projects", "favorites", "contacts">>

\* createCollections(db) in a browser, ContactPage.tsx:572-597: each key that
\* getItem finds absent (or empty) is set to "[]"; the setItem of the key at
\* place `stop` is refused (0: none is), which leaves the later keys alone.
\* The keys of the other collections may be absent or not.
CreateCollections ==
    \E fails \in Refusals :
        \E stop \in (IF fails THEN 1..Len(CollectionKeys) ELSE {0}) :
            /\ (stop # 0 /\ CollectionKeys[stop] \in Names)
                    => NoText(localStorage[CollectionKeys[stop]])
            /\ localStorage' =
                    [c \in Names |->
                        LET place == CHOOSE i \in 1..Len(CollectionKeys) : CollectionKeys[i] = c
                        IN  IF NoText(localStorage[c]) /\ (stop = 0 \/ place < stop)
                            THEN JsonText(<<>>) ELSE localStorage[c]]
            /\ last' = [NoCall EXCEPT !.op = "createCollections",
                                      !.outcome = IF fails THEN "caught" ELSE "ok"]
            /\ refused' = IF fails THEN refused + 1 ELSE refused
            /\ UNCHANGED <<collectionCache, now, others>>

SamplesFind ==
    \E q \in SeqFilters :
        LET step == find("designs", q)
        IN  Commit("designs", step, step.ret) /\ UNCHANGED <<now, others>>

SamplesFindOne ==
    \E q \in SeqFilters \cup {[_id |-> Str(g)] : g \in GeneratedIds} :
        LET step == findOne("designs", q)
        IN  Commit("designs", step, step.ret) /\ UNCHANGED <<now, others>>

SamplesCountDocuments ==
    \E q \in SeqFilters :
        LET step == countDocuments("designs", q)
        IN  Commit("designs", step, step.ret) /\ UNCHANGED <<now, others>>

NextSamples ==
    \/ CreateCollections
    \/ InsertSampleDesigns
    \/ SamplesFind
    \/ SamplesFindOne
    \/ SamplesCountDocuments
    \/ InvalidateCache

SpecSamples == InitSamples /\ [][NextSamples]_vars

\* insertSampleDesigns was the last call and has written mock_designs
samplesWritten == last.op = "insertSampleDesigns" /\ last.outcome = "ok"

\* C38: after insertSampleDesigns has written the sample designs under
\* mock_designs, the next find, findOne or countDocuments on "designs"
\* answers from exactly the sample designs just written, also when "designs"
\* had been read, and so cached in collectionCache, before the call.
C38_ReadsReflectTheSamples ==
    [][ (samplesWritten /\ last'.op \in {"find", "findOne", "countDocuments"})
            => answers(localStorage["designs"].items) ]_vars

\* The same, for a call made while collectionCache has no entry for "designs"
SamplesAreReadWithoutCache ==
    [][ (/\ samplesWritten /\ last'.op \in {"find", "findOne", "countDocuments"}
         /\ ~collectionCache["designs"].present)
            => answers(localStorage["designs"].items) ]_vars

(***************************************************************************)
(* SpecUpdate: projectService.update, useAuth.tsx:372-399, next to the    *)
(* cached reads and projectService.delete.  `last` keeps the call of      *)
(* update: its id, its updates and what it returned (items is empty for   *)
(* null).                                                                 *)
(***************************************************************************)
\* The methods of the object mockDb.collection(name) returns (mongodb.ts:90-345)
CollectionMethods ==
    {"find", "findOne", "insertOne", "insertMany", "updateOne", "deleteOne",
     "countDocuments"}

\* The `updates` argument of projectService.update
ProjectUpdates == { [title |-> Str("b")], [status |-> Str("a"), age |-> Num(70)], <<>> }

UpdateIds == {"id_1", "id_2"}

InitUpdate ==
    /\ collectionCache = [c \in ServiceNames |-> Absent]
    /\ \E projects \in {NoItem, JsonText(<<Design1>>),
                        JsonText(<<[_id |-> Str("id_2")], Design1>>)} :
        localStorage = [c \in ServiceNames |->
            CASE c = "designs"  -> JsonText(<<Design1>>)
              [] c = "projects" -> projects
              [] OTHER          -> JsonText(<<User1>>)]
    /\ serviceCache = <<>>
    /\ now = 0
    /\ last = NoCall
    /\ calls = [p \in Readers |-> Idle]
    /\ refused = 0
    /\ probe = [reads |-> 0]

\* projectService.update(id, updates): db.collection('projects') has no
\* property findOneAndUpdate, so calling it (useAuth.tsx:381) throws a
\* TypeError before anything is read or written; the catch block logs it and
\* returns null (useAuth.tsx:395-398)
ProjectUpdate ==
    /\ "findOneAndUpdate" \notin CollectionMethods
    /\ \E id \in UpdateIds, updates \in ProjectUpdates, genId \in GeneratedIds :
        last' = [NoCall EXCEPT !.op = "projectService.update", !.coll = "projects",
                               !.query = [_id |-> toObjectId(id, genId)],
                               !.update = [x \in {"$set"} |->
                                            Assign(updates, "updatedAt", Iso(now))],
                               !.error = "TypeError", !.items = <<>>]
    /\ UNCHANGED <<collectionCache, localStorage, serviceCache, now, calls, refused, probe>>

NextUpdate ==
    \/ CachedReadCall
    \/ CachedReadRead
    \/ CachedReadStore
    \/ CachedReadReturn
    \/ ProjectUpdate
    \/ ProjectDelete

SpecUpdate == InitUpdate /\ [][NextUpdate]_vars

\* C39: for every project id present in the projects collection,
\* projectService.update(id, updates) persists the updates merged into that
\* project, with a refreshed updatedAt, in the projects collection and
\* returns the updated project, not none.
C39_ProjectUpdatePersists ==
    [][ LET items == contentOf("projects")
            i == findIndex(items, last'.query)
        IN  (last'.op = "projectService.update" /\ last' # last /\ i # 0)
                => LET updated == applyUpdate(items[i], last'.update)
                   IN  /\ contentOf("projects")' = [items EXCEPT ![i] = updated]
                       /\ parseStored("projects")'.items = JsonRoundTrip(contentOf("projects")')
                       /\ last'.items = <<Assign(updated, "_id",
                                                 toStringOf(Field(updated, "_id")))>> ]_vars
====
